---------------------------- MODULE Spec2Model ----------------------------
(***************************************************************************)
(* Verification model of the Algo-Trading repository:                      *)
(*   - LiveOHLCVData          (src/data/ohlcv.py)        candle aggregator  *)
(*   - BullishSwingStrategy   (src/strategies/bullish_swing.py)  engine     *)
(*   - OptionData             (src/models/option.py)     risk / selection   *)
(*   - AlgoTradingApp         (src/main.py)   tick thread and update loop   *)
(*   - AngelOneBroker         (src/brokers/angelone.py)  rate limiting      *)
(*                                                                         *)
(* Prices of the underlying are integers in units of 0.05 (the entry       *)
(* buffer of calculate_point_D), so D + 0.05 is D + Buffer with Buffer = 1. *)
(* Python indices are kept 0-based; row i of a DataFrame is data[i + 1].    *)
(* Python None is the integer None (-1) for prices, indices and ids, and a  *)
(* record of Nones where the value is a dict.                              *)
(***************************************************************************)
EXTENDS Integers, Sequences, FiniteSets, TLC

\* ------------------------------------------------------------------ bounds
\* Longest candle sequence the aggregator may hold in the model.
MaxCandles == 9
\* get_latest_candles(count=100): the window length, scaled down.
WindowCount == 8
\* Cap on the orders placed and on the signals one engine returns.
MaxOrders == 2
MaxSignals == 2
\* settings.MAX_REQUESTS_PER_MINUTE (500), scaled down.
MinuteCap == 2
\* Cap on the broker calls the application issues.
MaxCalls == 3

\* --------------------------------------------------------------- settings
MAX_SIGNAL_ATTEMPTS == 1
DEFAULT_LOT_SIZE == 75
TARGET_RISK_MIN == 800
TARGET_RISK_MAX == 900
\* 0.05 in price units of 0.05
Buffer == 1
\* timeframe of the aggregator that feeds the engine (spot_5min)
TimeframeMinutes == 5
\* lot multiples scanned by select_optimal_strike: range(1, 51)
MaxLots == 50
\* settings.MIN_REQUEST_INTERVAL_MS
MIN_REQUEST_INTERVAL_MS == 50
\* the rate window of the broker, in seconds
WindowSeconds == 60
\* max_retries of check_order_status and get_option_greeks
MaxRetries == 3
\* time.sleep(0.5) between the attempts of check_order_status, in ms
RetrySleepMs == 500

None == 0 - 1

Abs(x) == IF x < 0 THEN 0 - x ELSE x

Max2(a, b) == IF a >= b THEN a ELSE b

Min2(a, b) == IF a <= b THEN a ELSE b

\* ------------------------------------------------- exact rational numbers
\* Option prices and Greeks are floats in the source; they are modelled as
\* exact fractions [n, d] in lowest terms with d > 0.
RECURSIVE GCD(_, _)
GCD(a, b) == IF b = 0 THEN a ELSE GCD(b, a % b)

Rat(n, d) ==
    LET g == GCD(Abs(n), Abs(d))
        s == IF d < 0 THEN 0 - 1 ELSE 1
    IN  [n |-> s * (n \div g), d |-> s * (d \div g)]

RInt(k) == [n |-> k, d |-> 1]

RAdd(a, b) == Rat(a.n * b.d + b.n * a.d, a.d * b.d)

RSub(a, b) == Rat(a.n * b.d - b.n * a.d, a.d * b.d)

RMul(a, b) == Rat(a.n * b.n, a.d * b.d)

RLt(a, b) == a.n * b.d < b.n * a.d

RLe(a, b) == a.n * b.d <= b.n * a.d

RAbs(a) == [n |-> Abs(a.n), d |-> a.d]

RMax(a, b) == IF RLt(a, b) THEN b ELSE a

\* The rational None (a float attribute that is still None).
RNone == [n |-> None, d |-> 0]

\* An underlying price (units of 0.05) as a currency amount.
PriceR(p) == Rat(p, 20)

\* =================================================================== ohlcv
\* src/data/ohlcv.py: LiveOHLCVData, one instance per timeframe.

Candle(t, o, h, l, c, v) ==
    [time |-> t, open |-> o, high |-> h, low |-> l, close |-> c, volume |-> v]

\* current_candle = None
NoCandle == Candle(None, None, None, None, None, None)

NewAggregator == [completed_candles |-> <<>>, current_candle |-> NoCandle]

\* tick_time.replace(minute=(minute // W) * W, second=0, microsecond=0),
\* with time counted in whole minutes.
CandleStart(tick_time, W) == (tick_time \div W) * W

\* update_from_tick as it would be if a tick of a bucket earlier than the
\* in-progress candle's were dropped.
UpdateFromTickDroppingLate(a, tick_time, price, W) ==
    LET candle_start == CandleStart(tick_time, W)
        cur == a.current_candle
    IN  IF cur = NoCandle \/ candle_start > cur.time
        THEN [completed_candles |->
                  IF cur # NoCandle THEN Append(a.completed_candles, cur)
                                    ELSE a.completed_candles,
              current_candle |-> Candle(candle_start, price, price, price, price, 0)]
        ELSE IF candle_start < cur.time
        THEN a
        ELSE [a EXCEPT !.current_candle =
                  [cur EXCEPT !.high = Max2(cur.high, price),
                              !.low = Min2(cur.low, price),
                              !.close = price]]

\* update_from_tick as it would be if the candle in progress were dropped,
\* not sealed, when a later bucket opens.
UpdateFromTickNotSealing(a, tick_time, price, W) ==
    LET candle_start == CandleStart(tick_time, W)
        cur == a.current_candle
    IN  IF cur = NoCandle \/ candle_start > cur.time
        THEN [completed_candles |-> a.completed_candles,
              current_candle |-> Candle(candle_start, price, price, price, price, 0)]
        ELSE [a EXCEPT !.current_candle =
                  [cur EXCEPT !.high = Max2(cur.high, price),
                              !.low = Min2(cur.low, price),
                              !.close = price]]

UpdateFromTick(a, tick_time, price, W) ==
    LET candle_start == CandleStart(tick_time, W)
        cur == a.current_candle
    IN  IF cur = NoCandle \/ candle_start > cur.time
        THEN [completed_candles |->
                  IF cur # NoCandle THEN Append(a.completed_candles, cur)
                                    ELSE a.completed_candles,
              current_candle |-> Candle(candle_start, price, price, price, price, 0)]
        ELSE [a EXCEPT !.current_candle =
                  [cur EXCEPT !.high = Max2(cur.high, price),
                              !.low = Min2(cur.low, price),
                              !.close = price]]

\* all_candles[-count:] for count >= 0; -0 is 0, and s[0:] is all of s.
LastN(s, count) ==
    IF count = 0 \/ Len(s) <= count THEN s ELSE SubSeq(s, Len(s) - count + 1, Len(s))

AllCandles(a) ==
    IF a.current_candle # NoCandle
    THEN Append(a.completed_candles, a.current_candle)
    ELSE a.completed_candles

GetLatestCandles(a, count) == LastN(AllCandles(a), count)

\* get_dataframe(): the latest candles as rows (the rename of 'time' to the
\* index 'timestamp' keeps every value).
GetDataframe(a) == GetLatestCandles(a, WindowCount)

\* The rows as they come, had sort_values been left out.
RowsAsGiven(rows) == rows

\* historical_df.sort_values('timestamp'): ascending, equal keys in input order.
RECURSIVE InsertByTime(_, _)
InsertByTime(sorted, c) ==
    IF sorted = <<>> THEN <<c>>
    ELSE IF sorted[Len(sorted)].time <= c.time THEN Append(sorted, c)
    ELSE Append(InsertByTime(SubSeq(sorted, 1, Len(sorted) - 1), c),
                sorted[Len(sorted)])

RECURSIVE SortByTime(_)
SortByTime(rows) ==
    IF rows = <<>> THEN <<>>
    ELSE InsertByTime(SortByTime(SubSeq(rows, 1, Len(rows) - 1)), rows[Len(rows)])

\* initialize_from_historical: every row, in timestamp order, becomes a
\* completed candle; an empty frame changes nothing (returns False).
InitializeFromHistorical(a, historical) ==
    IF historical = <<>> THEN a
    ELSE [a EXCEPT !.completed_candles = a.completed_candles \o SortByTime(historical)]

\* The value initialize_from_historical returns: False for an empty frame,
\* True after the rows were appended.
InitializeFromHistoricalReturns(historical) == historical # <<>>

\* ================================================================== option
\* src/models/option.py: OptionData.  A row of the options table carries the
\* fields the risk model reads; stop_loss, target and risk_per_lot are None
\* until calculate_stop_loss has run.

OptionRow(symbol, delta, gamma, theta, last_price) ==
    [symbol |-> symbol, delta |-> delta, gamma |-> gamma, theta |-> theta,
     last_price |-> last_price,
     stop_loss |-> RNone, target |-> RNone, risk_per_lot |-> RNone]

\* No option selected (None, None, None).
NoOption == OptionRow("None", RNone, RNone, RNone, RNone)

\* A field whose value float() cannot convert (it raises ValueError).
Malformed == [n |-> 0, d |-> 0]

\* float(data.get(key, 0) or 0): a missing value (None) counts as 0.
ParseFloat(value) == IF value = RNone THEN RInt(0) ELSE value

\* OptionData(data) raises: one of the fields it converts is malformed.
OptionDataRaises(data) ==
    Malformed \in {data.delta, data.gamma, data.theta, data.last_price}

\* OptionData(data) for a row whose fields convert.
OptionDataInit(data) ==
    OptionRow(data.symbol, ParseFloat(data.delta), ParseFloat(data.gamma),
              ParseFloat(data.theta), ParseFloat(data.last_price))

\* A total that takes theta with its sign.
TotalSlSignedTheta(option, underlying_move) ==
    RAdd(RAdd(RMul(option.delta, underlying_move),
              RMul(Rat(1, 2), RMul(option.gamma, RMul(underlying_move, underlying_move)))),
         RMul(RMul(option.theta, Rat(1, 24 * 6)), Rat(10, 60)))

\* total_sl = delta_impact + gamma_impact + theta_impact
TotalSl(option, underlying_move) ==
    RAdd(RAdd(RMul(option.delta, underlying_move),
              RMul(Rat(1, 2), RMul(option.gamma, RMul(underlying_move, underlying_move)))),
         RMul(RMul(RAbs(option.theta), Rat(1, 24 * 6)), Rat(10, 60)))

\* target = last_price + 2 * (last_price - stop_loss)
WithTarget(option, stop_loss) ==
    [option EXCEPT !.stop_loss = stop_loss,
                   !.target = RAdd(option.last_price,
                                   RMul(RInt(2), RSub(option.last_price, stop_loss)))]

\* risk_per_lot, and stop_loss and target when last_price > 0
WithStopLoss(option, total_sl) ==
    IF RLt(RInt(0), option.last_price)
    THEN WithTarget([option EXCEPT !.risk_per_lot = total_sl],
                    RMax(RSub(option.last_price, total_sl), Rat(1, 10)))
    ELSE [option EXCEPT !.risk_per_lot = total_sl]

\* calculate_stop_loss: the option after the call.
CalculateStopLoss(option, underlying_entry, underlying_sl) ==
    WithStopLoss(option, TotalSl(option, RAbs(RSub(underlying_entry, underlying_sl))))

\* The in-band candidates of one option: lots 1..50, stopping after the first
\* lot count whose total risk exceeds target_max.
RECURSIVE LotsInRange(_, _, _, _, _)
LotsInRange(option, lots, target_min, target_max, lot_size) ==
    IF lots > MaxLots THEN <<>>
    ELSE LET quantity == lots * lot_size
             total_risk == RMul(option.risk_per_lot, RInt(quantity))
             here == IF RLe(RInt(target_min), total_risk) /\ RLe(total_risk, RInt(target_max))
                     THEN <<[option |-> option, quantity |-> quantity, total_risk |-> total_risk]>>
                     ELSE <<>>
         IN  IF RLt(RInt(target_max), total_risk) THEN here
             ELSE here \o LotsInRange(option, lots + 1, target_min, target_max, lot_size)

RECURSIVE OptionsInRange(_, _, _, _)
OptionsInRange(valid_options, target_min, target_max, lot_size) ==
    IF valid_options = <<>> THEN <<>>
    ELSE LotsInRange(Head(valid_options), 1, target_min, target_max, lot_size)
         \o OptionsInRange(Tail(valid_options), target_min, target_max, lot_size)

\* The position of the last smallest key.
RECURSIVE LastMin(_, _, _)
LastMin(keys, i, best) ==
    IF i > Len(keys) THEN best
    ELSE LastMin(keys, i + 1, IF RLe(keys[i], keys[best]) THEN i ELSE best)

\* list.sort(key=...)[0]: the position of the first smallest key.
RECURSIVE FirstMin(_, _, _)
FirstMin(keys, i, best) ==
    IF i > Len(keys) THEN best
    ELSE FirstMin(keys, i + 1, IF RLt(keys[i], keys[best]) THEN i ELSE best)

NoSelection == [option |-> NoOption, quantity |-> None, total_risk |-> RNone]

\* options_in_range sorted by abs(total_risk - target_mid), first row
ClosestInRange(options_in_range, target_mid) ==
    options_in_range[FirstMin([k \in DOMAIN options_in_range |->
                                  RAbs(RSub(options_in_range[k].total_risk, target_mid))], 2, 1)]

OneLotOf(closest_option, lot_size) ==
    [option |-> closest_option, quantity |-> lot_size,
     total_risk |-> RMul(closest_option.risk_per_lot, RInt(lot_size))]

\* valid_options sorted by abs(risk_per_lot * lot_size - target_mid), first row
ClosestOneLot(valid_options, target_mid, lot_size) ==
    OneLotOf(valid_options[FirstMin([k \in DOMAIN valid_options |->
                 RAbs(RSub(RMul(valid_options[k].risk_per_lot, RInt(lot_size)), target_mid))], 2, 1)],
             lot_size)

SelectAmong(valid_options, options_in_range, target_mid, lot_size) ==
    IF options_in_range # <<>>
    THEN ClosestInRange(options_in_range, target_mid)
    ELSE ClosestOneLot(valid_options, target_mid, lot_size)

SelectValid(valid_options, target_min, target_max, lot_size) ==
    SelectAmong(valid_options,
                OptionsInRange(valid_options, target_min, target_max, lot_size),
                Rat(target_min + target_max, 2), lot_size)

\* select_optimal_strike(options_data, current_price, (min, max), lot_size).
\* Every row has numeric fields here, so calculate_stop_loss returns a
\* (truthy) dict for each and valid_options is the whole table.
SelectOptimalStrike(options_data, current_price, target_min, target_max, lot_size) ==
    IF options_data = <<>> THEN NoSelection
    ELSE SelectValid([k \in 1..Len(options_data) |->
                         CalculateStopLoss(options_data[k], current_price,
                                           RMul(current_price, Rat(995, 1000)))],
                     target_min, target_max, lot_size)

\* select_optimal_strike on raw rows: OptionData(row.to_dict()) is built for
\* every row before anything else and outside any try, so a row that does
\* not convert ends the call with its exception.
SelectOptimalStrikeOutcome(options_data, current_price, target_min, target_max, lot_size) ==
    IF options_data = <<>> THEN [raised |-> FALSE, selection |-> NoSelection]
    ELSE IF \E k \in DOMAIN options_data : OptionDataRaises(options_data[k])
    THEN [raised |-> TRUE, selection |-> NoSelection]
    ELSE [raised |-> FALSE,
          selection |-> SelectOptimalStrike(
                            [k \in DOMAIN options_data |-> OptionDataInit(options_data[k])],
                            current_price, target_min, target_max, lot_size)]

\* ================================================================ strategy
\* src/strategies/bullish_swing.py: BullishSwingStrategy.

\* cached_options_data: None, or a DataFrame (a sequence of rows, maybe empty).
NoOptionsData == [is_none |-> TRUE, rows |-> <<>>]

OptionsFrame(rows) == [is_none |-> FALSE, rows |-> rows]

\* pd.DataFrame(): the placeholder refresh_option_greeks stores.
PlaceholderOptionsData == OptionsFrame(<<>>)

Point(idx, value) == [idx |-> idx, value |-> value]

\* pending_setup = None
NoSetup ==
    [entry_price |-> None, stop_loss |-> None, target |-> None,
     structure |-> [H1 |-> Point(None, None), L1 |-> Point(None, None),
                    A |-> Point(None, None), B |-> Point(None, None),
                    C |-> Point(None, None), D |-> Point(None, None)],
     strategy_type |-> "None"]

\* One row of self.signals (NaN is None).
NoSignalRow == [signal |-> 0, entry_price |-> None, stop_loss |-> None, target |-> None]

\* __init__(data, broker)
NewEngine(data) ==
    [data |-> data,
     signals |-> [k \in 1..Len(data) |-> NoSignalRow],
     H1 |-> None, L1 |-> None, A |-> None, B |-> None, C |-> None, D |-> None,
     H1_idx |-> None, L1_idx |-> None, A_idx |-> None, B_idx |-> None,
     C_idx |-> None, D_idx |-> None,
     pending_setup |-> NoSetup,
     structures |-> <<>>,
     last_order_id |-> None,
     order_history |-> <<>>,
     order_counter |-> 0,
     signal_counter |-> 0,
     cached_options_data |-> NoOptionsData]

High(e, i) == e.data[i + 1].high

Low(e, i) == e.data[i + 1].low

\* Swing tests that also accept a value equal to a neighbour's.
IsSwingHighNonStrict(e, idx) ==
    IF idx <= 0 \/ idx >= Len(e.data) - 1 THEN FALSE
    ELSE High(e, idx) >= High(e, idx - 1) /\ High(e, idx) >= High(e, idx + 1)

IsSwingHigh(e, idx) ==
    IF idx <= 0 \/ idx >= Len(e.data) - 1 THEN FALSE
    ELSE High(e, idx) > High(e, idx - 1) /\ High(e, idx) > High(e, idx + 1)

IsSwingLow(e, idx) ==
    IF idx <= 0 \/ idx >= Len(e.data) - 1 THEN FALSE
    ELSE Low(e, idx) < Low(e, idx - 1) /\ Low(e, idx) < Low(e, idx + 1)

InitializeH1L1(e) ==
    IF Len(e.data) > 0
    THEN [e EXCEPT !.L1 = Low(e, 0), !.L1_idx = 0, !.H1 = None, !.H1_idx = None]
    ELSE e

\* A reset of 'D' that keeps the pending setup.
ResetPointKeepingSetup(e, point) ==
    CASE point = "H1" -> [e EXCEPT !.H1 = None, !.H1_idx = None]
      [] point = "L1" -> [e EXCEPT !.L1 = None, !.L1_idx = None]
      [] point = "A" -> [e EXCEPT !.A = None, !.A_idx = None]
      [] point = "B" -> [e EXCEPT !.B = None, !.B_idx = None]
      [] point = "C" -> [e EXCEPT !.C = None, !.C_idx = None]
      [] point = "D" -> [e EXCEPT !.D = None, !.D_idx = None]

ResetPoint(e, point) ==
    CASE point = "H1" -> [e EXCEPT !.H1 = None, !.H1_idx = None]
      [] point = "L1" -> [e EXCEPT !.L1 = None, !.L1_idx = None]
      [] point = "A" -> [e EXCEPT !.A = None, !.A_idx = None]
      [] point = "B" -> [e EXCEPT !.B = None, !.B_idx = None]
      [] point = "C" -> [e EXCEPT !.C = None, !.C_idx = None]
      [] point = "D" -> [e EXCEPT !.D = None, !.D_idx = None, !.pending_setup = NoSetup]

RECURSIVE ResetPoints(_, _)
ResetPoints(e, which_points) ==
    IF which_points = <<>> THEN e
    ELSE ResetPoints(ResetPoint(e, Head(which_points)), Tail(which_points))

\* refresh_option_greeks(force_refresh=True) with a broker that has 'api':
\* the table is replaced by what the fetch delivered.
RefreshOptionGreeks(e, fetched) == [e EXCEPT !.cached_options_data = fetched]

\* A scan that stops one candle before the last.
RECURSIVE HighestHighBeforeLast(_, _, _, _)
HighestHighBeforeLast(e, i, last, best) ==
    IF i >= last THEN best
    ELSE HighestHighBeforeLast(e, i + 1, last, IF High(e, i) > High(e, best) THEN i ELSE best)

\* The highest high over [B_idx, C_idx], the first one on ties.
RECURSIVE HighestHighIdx(_, _, _, _)
HighestHighIdx(e, i, last, best) ==
    IF i > last THEN best
    ELSE HighestHighIdx(e, i + 1, last, IF High(e, i) > High(e, best) THEN i ELSE best)

SetupStructure(e) ==
    [H1 |-> Point(e.H1_idx, e.H1), L1 |-> Point(e.L1_idx, e.L1),
     A |-> Point(e.A_idx, e.A), B |-> Point(e.B_idx, e.B),
     C |-> Point(e.C_idx, e.C), D |-> Point(e.D_idx, e.D)]

\* A setup whose buffers are taken off the entry and put on the stop.
SetupOfBuffersInside(e, strategy_type) ==
    LET entry_price == e.D - Buffer
        stop_loss == e.C + Buffer
        risk == entry_price - stop_loss
    IN  [entry_price |-> entry_price, stop_loss |-> stop_loss,
         target |-> entry_price + (risk * 2),
         structure |-> SetupStructure(e),
         strategy_type |-> strategy_type]

\* entry_price, stop_loss, target of a setup on the engine's C and D.
SetupOf(e, strategy_type) ==
    LET entry_price == e.D + Buffer
        stop_loss == e.C - Buffer
        risk == entry_price - stop_loss
    IN  [entry_price |-> entry_price, stop_loss |-> stop_loss,
         target |-> entry_price + (risk * 2),
         structure |-> SetupStructure(e),
         strategy_type |-> strategy_type]

\* A computation of D that makes a setup only when a chain was fetched.
CalculatePointDNeedingChain(e, fetched) ==
    IF e.H1 # None /\ e.B # None /\ e.C # None
    THEN LET d_idx == HighestHighIdx(e, e.B_idx + 1, e.C_idx, e.B_idx)
             e1 == [e EXCEPT !.D = High(e, d_idx), !.D_idx = d_idx]
             e2 == IF fetched.rows = <<>> THEN e1
                   ELSE [e1 EXCEPT !.pending_setup = SetupOf(e1, "CE_BUYING")]
         IN  RefreshOptionGreeks(e2, fetched)
    ELSE e

CalculatePointD(e, fetched) ==
    IF e.H1 # None /\ e.B # None /\ e.C # None
    THEN LET d_idx == HighestHighIdx(e, e.B_idx + 1, e.C_idx, e.B_idx)
             e1 == [e EXCEPT !.D = High(e, d_idx), !.D_idx = d_idx]
             e2 == [e1 EXCEPT !.pending_setup = SetupOf(e1, "CE_BUYING")]
         IN  RefreshOptionGreeks(e2, fetched)
    ELSE e

\* ---- the body of the generate_signals loop for candle i, block by block
L1Updates(e, i) == IsSwingLow(e, i) /\ Low(e, i) < e.L1

StepL1(e, i) ==
    IF L1Updates(e, i)
    THEN ResetPoints([e EXCEPT !.L1 = Low(e, i), !.L1_idx = i], <<"H1", "A", "B", "C", "D">>)
    ELSE e

H1Candidate(e, i) ==
    e.L1 # None /\ IsSwingHigh(e, i) /\ i > e.L1_idx /\ High(e, i) > e.L1

H1Updates(e, i) == H1Candidate(e, i) /\ e.H1 # None /\ High(e, i) > e.H1

StepH1(e, i) ==
    IF H1Candidate(e, i)
    THEN IF e.H1 = None
         THEN [e EXCEPT !.H1 = High(e, i), !.H1_idx = i]
         ELSE IF High(e, i) > e.H1
              THEN ResetPoints([e EXCEPT !.H1 = High(e, i), !.H1_idx = i], <<"A", "B", "C", "D">>)
              ELSE e
    ELSE e

\* An A formation that takes any low after H1, swing low or not.
StepAOnAnyLow(e, i) ==
    IF e.H1 # None /\ e.L1 # None /\ e.A = None
       /\ i > e.H1_idx /\ Low(e, i) > e.L1
    THEN [e EXCEPT !.A = Low(e, i), !.A_idx = i]
    ELSE e

StepA(e, i) ==
    IF e.H1 # None /\ e.L1 # None /\ e.A = None /\ IsSwingLow(e, i)
       /\ i > e.H1_idx /\ Low(e, i) > e.L1
    THEN [e EXCEPT !.A = Low(e, i), !.A_idx = i]
    ELSE e

StepB(e, i) ==
    IF e.A # None /\ e.B = None /\ IsSwingLow(e, i)
       /\ i > e.A_idx + 1 /\ Low(e, i) > e.A
    THEN [e EXCEPT !.B = Low(e, i), !.B_idx = i]
    ELSE e

\* A C formation that does not ask for a pullback.
CFormsWithoutPullback(e, i) ==
    e.B # None /\ e.C = None /\ i > e.B_idx /\ Low(e, i) > e.B

CForms(e, i) ==
    e.B # None /\ e.C = None /\ i > e.B_idx /\ Low(e, i) < Low(e, i - 1) /\ Low(e, i) > e.B

StepC(e, i, fetched) ==
    IF CForms(e, i)
    THEN CalculatePointD([e EXCEPT !.C = Low(e, i), !.C_idx = i], fetched)
    ELSE e

\* A breakout test that also fires on a high equal to D.
BreaksOutAtOrAbove(e, i) == e.pending_setup # NoSetup /\ High(e, i) >= e.D

BreaksOut(e, i) == e.pending_setup # NoSetup /\ High(e, i) > e.D

StepBreakout(e, i) ==
    IF BreaksOut(e, i)
    THEN LET ps == e.pending_setup
             row == [signal |-> 1, entry_price |-> ps.entry_price,
                     stop_loss |-> ps.stop_loss, target |-> ps.target]
             structure == [points |-> ps.structure,
                           entry |-> Point(i, ps.entry_price),
                           stop_loss |-> Point(i, ps.stop_loss),
                           target |-> Point(i, ps.target)]
             e1 == [e EXCEPT !.signals[i + 1] = row,
                             !.structures = Append(@, structure)]
             e2 == ResetPoints(e1, <<"H1", "L1", "A", "B", "C", "D">>)
         IN  [e2 EXCEPT !.L1 = Low(e, i), !.L1_idx = i]
    ELSE e

\* One iteration of the loop of generate_signals: the six blocks in order.
GenerateStep(e, i, fetched) ==
    LET e1 == StepL1(e, i)
        e2 == StepH1(e1, i)
        e3 == StepA(e2, i)
        e4 == StepB(e3, i)
        e5 == StepC(e4, i, fetched)
    IN  StepBreakout(e5, i)

\* ---- the same iteration on a frame in which the 'high' of some row is None
\* (the field is absent from the row): comparing it with a number raises
\* TypeError, and nothing in generate_signals catches it.
\* is_swing_high(idx) raises: the comparison with prev_high, or, when that one
\* is true, the comparison with next_high.
SwingHighRaises(e, idx) ==
    IF idx <= 0 \/ idx >= Len(e.data) - 1 THEN FALSE
    ELSE \/ High(e, idx) = None
         \/ High(e, idx - 1) = None
         \/ High(e, idx) > High(e, idx - 1) /\ High(e, idx + 1) = None

\* calculate_point_D raises in its scan of the highs from B to C.
PointDRaises(e) ==
    /\ e.H1 # None /\ e.B # None /\ e.C # None
    /\ \E k \in e.B_idx..e.C_idx : High(e, k) = None

\* The outcome of an iteration that went on to the breakout block.
OutcomeAfterC(e5, i) ==
    IF e5.pending_setup # NoSetup /\ High(e5, i) = None
    THEN [engine |-> e5, raised |-> TRUE]
    ELSE [engine |-> StepBreakout(e5, i), raised |-> FALSE]

\* lines 584-591: self.C and self.C_idx are assigned, then calculate_point_D
\* is called; when it raises, the assignments stay.
OutcomeAfterB(e4, i, fetched) ==
    IF CForms(e4, i) /\ PointDRaises([e4 EXCEPT !.C = Low(e4, i), !.C_idx = i])
    THEN [engine |-> [e4 EXCEPT !.C = Low(e4, i), !.C_idx = i], raised |-> TRUE]
    ELSE OutcomeAfterC(StepC(e4, i, fetched), i)

OutcomeAfterL1(e1, i, fetched) ==
    IF e1.L1 # None /\ SwingHighRaises(e1, i)
    THEN [engine |-> e1, raised |-> TRUE]
    ELSE OutcomeAfterB(StepB(StepA(StepH1(e1, i), i), i), i, fetched)

\* An iteration that evaluates the breakout before the L1 and H1 blocks.
GenerateStepOutcomeBreakoutFirst(e, i, fetched) ==
    OutcomeAfterL1(StepL1(StepBreakout(e, i), i), i, fetched)

\* One iteration of the loop: the engine after it, and whether an exception
\* left generate_signals in it.
GenerateStepOutcome(e, i, fetched) == OutcomeAfterL1(StepL1(e, i), i, fetched)

RECURSIVE GenerateFrom(_, _, _)
GenerateFrom(e, i, fetched) ==
    IF i >= Len(e.data) THEN e
    ELSE GenerateFrom(GenerateStep(e, i, fetched), i + 1, fetched)

\* generate_signals(): initialize_H1_L1, then candles 1 .. len(data) - 1.
GenerateSignals(e, fetched) == GenerateFrom(InitializeH1L1(e), 1, fetched)

\* A signal returned by check_live_tick; None is NoSignal.
NoSignal ==
    [signal |-> 0, entry_price |-> None, stop_loss |-> None, target |-> None,
     option_data |-> NoOption, quantity |-> None, total_risk |-> RNone]

\* lines 406-423: the Signal built from the selection, if there is one
SignalFrom(e, sel) ==
    IF sel.option = NoOption
    THEN [engine |-> e, signal |-> NoSignal]
    ELSE [engine |-> [e EXCEPT !.signal_counter = @ + 1],
          signal |-> [signal |-> 1,
                      entry_price |-> e.pending_setup.entry_price,
                      stop_loss |-> e.pending_setup.stop_loss,
                      target |-> e.pending_setup.target,
                      option_data |-> sel.option,
                      quantity |-> sel.quantity,
                      total_risk |-> sel.total_risk]]

\* lines 389-404: no options data, or strike selection on the table
SelectOnTick(e, price) ==
    IF e.cached_options_data.is_none \/ e.cached_options_data.rows = <<>>
    THEN [engine |-> e, signal |-> NoSignal]
    ELSE SignalFrom(e, SelectOptimalStrike(e.cached_options_data.rows, PriceR(price),
                                           TARGET_RISK_MIN, TARGET_RISK_MAX, DEFAULT_LOT_SIZE))

\* lines 382-387: the cached table if there is a non-empty one, else a refresh
WithOptionsData(e, fetched) ==
    IF ~e.cached_options_data.is_none /\ e.cached_options_data.rows # <<>>
    THEN e
    ELSE RefreshOptionGreeks(e, fetched)

\* lines 361-380: a setup made on the spot when none is pending
WithSetup(e) ==
    IF e.pending_setup = NoSetup
    THEN [e EXCEPT !.pending_setup = SetupOf(e, "None")]
    ELSE e

\* check_live_tick(price): the engine after the call and the value returned.
CheckLiveTick(e, price, fetched) ==
    IF e.C # None /\ e.D # None /\ price > e.D
    THEN IF e.order_counter >= MAX_SIGNAL_ATTEMPTS
         THEN [engine |-> e, signal |-> NoSignal]
         ELSE SelectOnTick(WithOptionsData(WithSetup(e), fetched), price)
    ELSE [engine |-> e, signal |-> NoSignal]

\* A place_order that counts the attempt whatever the broker returned.
StrategyPlaceOrderCountingAttempts(e, signal_data, order_id) ==
    LET option_data == signal_data.option_data
    IN  IF signal_data = NoSignal \/ option_data.target = RNone
        THEN e
        ELSE IF order_id = None
        THEN [e EXCEPT !.order_counter = @ + 1]
        ELSE [e EXCEPT !.order_counter = @ + 1,
                       !.order_history = Append(@, [order_id |-> order_id,
                                                    symbol |-> option_data.symbol,
                                                    quantity |-> signal_data.quantity,
                                                    entry_price |-> option_data.last_price,
                                                    stop_loss |-> option_data.stop_loss,
                                                    target |-> option_data.target,
                                                    status |-> "PLACED",
                                                    variety |-> "BO"]),
                       !.last_order_id = order_id]

\* place_order(signal_data): order_id is what broker.place_order returned
\* (None on failure).  Building order_params raises when the option has no
\* stop_loss/target (last_price <= 0); the caller catches it.
StrategyPlaceOrder(e, signal_data, order_id) ==
    LET option_data == signal_data.option_data
    IN  IF signal_data = NoSignal \/ option_data.target = RNone \/ order_id = None
        THEN e
        ELSE [e EXCEPT !.order_counter = @ + 1,
                       !.order_history = Append(@, [order_id |-> order_id,
                                                    symbol |-> option_data.symbol,
                                                    quantity |-> signal_data.quantity,
                                                    entry_price |-> option_data.last_price,
                                                    stop_loss |-> option_data.stop_loss,
                                                    target |-> option_data.target,
                                                    status |-> "PLACED",
                                                    variety |-> "BO"]),
                       !.last_order_id = order_id]


\* ================================================================== broker
\* src/brokers/angelone.py: AngelOneBroker.  Times are time.time() in
\* milliseconds.  A provider call is logged with its class, the time it is
\* issued at and the rate window (window start) it is counted in.

WindowMs == WindowSeconds * 1000

\* __init__ at time t
NewBroker(t) ==
    [last_order_time |-> 0, minute_order_count |-> 0, minute_start_time |-> t,
     last_status_check |-> 0, minute_status_count |-> 0, minute_status_start |-> t]

ProviderCall(class, at, window) == [class |-> class, at |-> at, window |-> window]

\* The per-minute block shared by place_order and check_order_status: the
\* counter and window start after it, and the time after its sleep.
MinuteWindow(count, start, current_time) ==
    IF current_time - start >= WindowMs
    THEN [count |-> 0, start |-> current_time, time |-> current_time]
    ELSE IF count >= MinuteCap
         THEN LET sleep_time == WindowMs - (current_time - start)
              IN  IF sleep_time > 0
                  THEN [count |-> 0, start |-> current_time + sleep_time,
                        time |-> current_time + sleep_time]
                  ELSE [count |-> count, start |-> start, time |-> current_time]
         ELSE [count |-> count, start |-> start, time |-> current_time]

\* The spacing block: the time after its sleep.  time_since_last is taken
\* from current_time, the reading made when the call began.
AfterSpacing(t, current_time, last) ==
    LET time_since_last == current_time - last
    IN  IF time_since_last < MIN_REQUEST_INTERVAL_MS
        THEN t + (MIN_REQUEST_INTERVAL_MS - time_since_last)
        ELSE t

\* place_order(order_params) begun at time t.  connected is what connect()
\* returned; outcome is what api.placeOrder did: "id" (an order id),
\* "rejected" (a response without one) or "raise".
BrokerPlaceOrder(b, t, connected, outcome) ==
    IF ~connected
    THEN [broker |-> b, time |-> t, calls |-> <<>>, order_id |-> None]
    ELSE
    LET w == MinuteWindow(b.minute_order_count, b.minute_start_time, t)
        b1 == [b EXCEPT !.minute_order_count = w.count, !.minute_start_time = w.start]
        at == AfterSpacing(w.time, t, b.last_order_time)
        call == ProviderCall("placeOrder", at, b1.minute_start_time)
    IN  IF outcome = "raise"
        THEN [broker |-> b1, time |-> at, calls |-> <<call>>, order_id |-> None]
        ELSE [broker |-> [b1 EXCEPT !.last_order_time = at,
                                    !.minute_order_count = @ + 1],
              time |-> at, calls |-> <<call>>,
              order_id |-> IF outcome = "id" THEN 1 ELSE None]

\* The retry loop of check_order_status from attempt retry on.  outcomes[k]
\* is what the k-th api.orderBook() did: "data" (a book with 'data'),
\* "nodata" (a response without it) or "raise".  result is the value
\* returned: "data" (what the book says of the order) or "None" (the
\* return None after the loop or of the guard).
\* The loop as it would be with `raise` where the except block has `break`:
\* the exception of the last attempt reaches the caller.
RECURSIVE StatusAttemptsReraising(_, _, _, _, _, _)
StatusAttemptsReraising(b, t, current_time, retry, outcomes, calls) ==
    IF retry >= MaxRetries
    THEN [broker |-> b, time |-> t, calls |-> calls, result |-> "None"]
    ELSE
    LET at == AfterSpacing(t, current_time, b.last_status_check)
        log == Append(calls, ProviderCall("orderBook", at, b.minute_status_start))
        outcome == outcomes[retry + 1]
        b1 == [b EXCEPT !.last_status_check = at, !.minute_status_count = @ + 1]
    IN  CASE outcome = "data" ->
                [broker |-> b1, time |-> at, calls |-> log, result |-> "data"]
          [] outcome = "nodata" ->
                IF retry < MaxRetries - 1
                THEN StatusAttemptsReraising(b1, at + RetrySleepMs, current_time,
                                             retry + 1, outcomes, log)
                ELSE [broker |-> b1, time |-> at, calls |-> log, result |-> "None"]
          [] outcome = "raise" ->
                IF retry < MaxRetries - 1
                THEN StatusAttemptsReraising(b, at + RetrySleepMs, current_time,
                                             retry + 1, outcomes, log)
                ELSE [broker |-> b, time |-> at, calls |-> log, result |-> "raised"]

RECURSIVE StatusAttempts(_, _, _, _, _, _)
StatusAttempts(b, t, current_time, retry, outcomes, calls) ==
    IF retry >= MaxRetries
    THEN [broker |-> b, time |-> t, calls |-> calls, result |-> "None"]
    ELSE
    LET at == AfterSpacing(t, current_time, b.last_status_check)
        log == Append(calls, ProviderCall("orderBook", at, b.minute_status_start))
        outcome == outcomes[retry + 1]
        b1 == [b EXCEPT !.last_status_check = at, !.minute_status_count = @ + 1]
    IN  CASE outcome = "data" ->
                [broker |-> b1, time |-> at, calls |-> log, result |-> "data"]
          [] outcome = "nodata" ->
                IF retry < MaxRetries - 1
                THEN StatusAttempts(b1, at + RetrySleepMs, current_time, retry + 1, outcomes, log)
                ELSE [broker |-> b1, time |-> at, calls |-> log, result |-> "None"]
          [] outcome = "raise" ->
                IF retry < MaxRetries - 1
                THEN StatusAttempts(b, at + RetrySleepMs, current_time, retry + 1, outcomes, log)
                ELSE [broker |-> b, time |-> at, calls |-> log, result |-> "None"]

\* check_order_status(order_id) begun at time t
BrokerCheckOrderStatus(b, t, order_id, outcomes) ==
    IF order_id = None
    THEN [broker |-> b, time |-> t, calls |-> <<>>, result |-> "None"]
    ELSE
    LET w == MinuteWindow(b.minute_status_count, b.minute_status_start, t)
        b1 == [b EXCEPT !.minute_status_count = w.count, !.minute_status_start = w.start]
    IN  StatusAttempts(b1, w.time, t, 0, outcomes, <<>>)

Pow2(k) == IF k = 0 THEN 1 ELSE IF k = 1 THEN 2 ELSE 4

\* The retry loop of get_option_greeks from attempt retry on.  outcomes[k] is
\* what the k-th api.optionGreek() did: "ok" (status true), "rate_limited"
\* (an error whose message names the rate limit), "error" (another error
\* response) or "raise"; jitter is random.uniform(0, 0.1) in ms.  result is
\* the value returned: "data" (greek_res['data']) or "None".
RECURSIVE GreeksAttempts(_, _, _, _, _)
GreeksAttempts(t, retry, outcomes, jitter, calls) ==
    IF retry >= MaxRetries
    THEN [time |-> t, calls |-> calls, result |-> "None"]
    ELSE
    LET at == IF retry > 0 THEN t + Min2((Pow2(retry) * 1000) + jitter, 5000) ELSE t
        log == Append(calls, ProviderCall("optionGreek", at, None))
        outcome == outcomes[retry + 1]
    IN  CASE outcome = "ok" -> [time |-> at, calls |-> log, result |-> "data"]
          [] outcome = "rate_limited" ->
                GreeksAttempts(at + (Min2(5 * (retry + 1), 30) * 1000), retry + 1,
                               outcomes, jitter, log)
          [] OTHER -> GreeksAttempts(at, retry + 1, outcomes, jitter, log)

\* get_option_greeks(name, expiry_date) begun at time t
BrokerGetOptionGreeks(t, connected, outcomes, jitter) ==
    IF ~connected
    THEN [time |-> t, calls |-> <<>>, result |-> "None"]
    ELSE GreeksAttempts(t, 0, outcomes, jitter, <<>>)


\* ===================================================================== app
\* src/main.py: AlgoTradingApp.  Two threads share self.spot_strategy and
\* self.spot_5min: the websocket thread (broker.start_websocket starts it,
\* it runs _process_tick for every message) and the main thread (start()
\* runs _update_strategies every 300 seconds).  Nothing serialises them.

\* fetchOptionChain: the tables the options collaborator may deliver to a
\* Greeks refresh: the empty frame the placeholder stores, or a table with
\* one contract whose risk is 11 per unit (theta -9504, no delta or gamma),
\* 825 for one lot of 75, last price 100.
ChainTable ==
    OptionsFrame(<<OptionRow("NIFTY_CE", RInt(0), RInt(0), RInt(0 - 9504), RInt(100))>>)

FetchOptionChain == {PlaceholderOptionsData, ChainTable}

\* Historical one-minute rows (fetch_historical_data): high and low per row,
\* open = low, close = high, at minutes 1, 2, ...
HistoryRows(highs, lows) ==
    [k \in 1..Len(highs) |-> Candle(k, lows[k], highs[k], lows[k], highs[k], 0)]

\* A leading candle, then L1 = 1 at 1, H1 = 8 at 2, A = 2 at 3, B = 3 at 5 and,
\* when the last low is 4, C = 4 at 7 with D = 6 at 6.
Histories ==
    { HistoryRows(<<4, 4, 8, 5, 5, 5, 6, 5>>, <<2, 1, 3, 2, 4, 3, 5, 4>>),   \* setup pending
      HistoryRows(<<4, 4, 6, 5, 5, 5, 6, 5>>, <<2, 1, 3, 2, 4, 3, 5, 4>>),   \* the same, H1 = D
      HistoryRows(<<4, 4, 8, 5, 5, 5, 6, 6>>, <<2, 1, 3, 2, 4, 3, 5, 5>>) }  \* C still to form

\* Last traded prices of the live ticks (after the 0.01 conversion).
TickPrices == {4, 7}

VARIABLES
    spot_5min,          \* the aggregator the engine is built from
    spot_strategy,      \* self.spot_strategy, the live engine
    clock,              \* datetime.now() of the tick thread, in minutes
    tick_pc,            \* websocket thread: "off" | "idle" | "place_order"
    signal_data,        \* its local signal_data between check and order
    upd_pc,             \* main thread: "sleep" | "create" | "restore" | "generate"
    upd_i,              \* next field to restore, or next candle index
    spot_df,            \* local spot_df of _update_strategies
    current_structure,  \* local current_structure of _update_strategies
    live,               \* the check_live_tick call that has just returned
    orders_for_D,       \* orders placed since D was last set or reset
    signals_for_D,      \* Signals returned since D was last set or reset
    now,                \* time.time() of the thread that calls the broker, in ms
    broker,             \* the rate-limit fields of the AngelOneBroker
    calls,              \* the provider calls issued so far, in order
    issued,             \* number of broker methods called so far
    returned            \* the broker method that has just returned

VARIABLES
    agg,                \* a LiveOHLCVData instance used on its own
    touched,            \* the bucket starts of the ticks it has processed
    ticks,              \* number of update_from_tick calls made on it
    seeds,              \* number of initialize_from_historical calls made on it
    last_op             \* the call on it that has just returned

appVars == <<spot_5min, spot_strategy, clock, tick_pc, signal_data, upd_pc, upd_i,
             spot_df, current_structure, live, orders_for_D, signals_for_D>>

brokerVars == <<now, broker, calls, issued, returned>>

aggVars == <<agg, touched, ticks, seeds, last_op>>

VARIABLES
    eng,                \* a BullishSwingStrategy used on its own
    eng_pc,             \* its generate_signals: "new" | "init" | "loop" | "done" | "raised"
    eng_i,              \* the loop index i of generate_signals
    eng_before,         \* the engine before the step that has just been taken
    eng_calls,          \* the number of generate_signals calls begun on it
    opt_call            \* the OptionData call that has just returned

libVars == <<eng, eng_pc, eng_i, eng_before, eng_calls, opt_call>>

vars == <<appVars, brokerVars, aggVars, libVars>>

NoStructureSnapshot ==
    [H1 |-> None, H1_idx |-> None, L1 |-> None, L1_idx |-> None,
     A |-> None, A_idx |-> None, B |-> None, B_idx |-> None,
     C |-> None, C_idx |-> None, D |-> None, D_idx |-> None,
     pending_setup |-> NoSetup]

\* current_structure = {...}: the thirteen fields read off the engine.
StructureSnapshot(e) ==
    [H1 |-> e.H1, H1_idx |-> e.H1_idx, L1 |-> e.L1, L1_idx |-> e.L1_idx,
     A |-> e.A, A_idx |-> e.A_idx, B |-> e.B, B_idx |-> e.B_idx,
     C |-> e.C, C_idx |-> e.C_idx, D |-> e.D, D_idx |-> e.D_idx,
     pending_setup |-> e.pending_setup]

RestoreOrder ==
    <<"H1", "H1_idx", "L1", "L1_idx", "A", "A_idx", "B", "B_idx",
      "C", "C_idx", "D", "D_idx", "pending_setup">>

\* The k-th assignment of the restore block.
RestoreField(e, snapshot, k) ==
    [e EXCEPT ![RestoreOrder[k]] = snapshot[RestoreOrder[k]]]

RECURSIVE RestoreFrom(_, _, _)
RestoreFrom(e, snapshot, k) ==
    IF k > Len(RestoreOrder) THEN e
    ELSE RestoreFrom(RestoreField(e, snapshot, k), snapshot, k + 1)

\* The restore block as a whole (taken only when pending_setup is truthy).
Restore(e, snapshot) ==
    IF snapshot.pending_setup # NoSetup THEN RestoreFrom(e, snapshot, 1) ELSE e

\* Candle i of generate_signals assigns or clears D.
TouchesD(e, i) ==
    LET e1 == StepL1(e, i)
        e2 == StepH1(e1, i)
        e4 == StepB(StepA(e2, i), i)
    IN  \/ L1Updates(e, i)
        \/ H1Updates(e1, i)
        \/ CForms(e4, i)
        \/ BreaksOut(StepC(e4, i, PlaceholderOptionsData), i)

\* No broker method has returned yet.
NoReturn == [method |-> "none", began |-> None, outcomes |-> <<>>, calls |-> <<>>,
             time |-> None, result |-> "None"]

\* No call has been made on the aggregator yet.
NoOp == [op |-> "none", before |-> NewAggregator, time |-> None, price |-> None,
         volume |-> None, rows |-> <<>>, limit |-> None, result |-> None]

\* No OptionData call has been made yet.
NoCall == [op |-> "none", option |-> NoOption, entry |-> RNone, stop |-> RNone,
           table |-> <<>>, price |-> RNone, raised |-> FALSE,
           after |-> NoOption, selection |-> NoSelection]

\* The separate engine and option model before any call.
LibIdle ==
    /\ eng = NewEngine(<<>>)
    /\ eng_pc = "new"
    /\ eng_i = 0
    /\ eng_before = NewEngine(<<>>)
    /\ eng_calls = 0
    /\ opt_call = NoCall

\* The separate aggregator before any call.
AggIdle ==
    /\ agg = NewAggregator
    /\ touched = {}
    /\ ticks = 0
    /\ seeds = 0
    /\ last_op = NoOp

NoLive == [price |-> None, before |-> NewEngine(<<>>), signal |-> NoSignal, upd_pc |-> "sleep"]

\* start(), _initialize_historical_data: the aggregator is seeded and the
\* engine built on get_dataframe(); its generate_signals is about to run in
\* the main thread.  The websocket is started only after it (tick_pc "off").
Init ==
    \E historical \in Histories :
        /\ spot_5min = InitializeFromHistorical(NewAggregator, historical)
        /\ spot_strategy = NewEngine(GetDataframe(spot_5min))
        /\ clock = Len(historical)
        /\ tick_pc = "off"
        /\ signal_data = NoSignal
        /\ upd_pc = "generate"
        /\ upd_i = 0
        /\ spot_df = <<>>
        /\ current_structure = NoStructureSnapshot
        /\ live = NoLive
        /\ orders_for_D = 0
        /\ signals_for_D = 0
        /\ now = WindowMs
        /\ broker = NewBroker(now)
        /\ calls = <<>>
        /\ issued = 0
        /\ returned = NoReturn
        /\ AggIdle
        /\ LibIdle

\* _process_tick for one spot tick at clock + dt: the 5-minute aggregator is
\* updated, then _check_breakout_signals calls check_live_tick on the
\* engine that self.spot_strategy names at that moment.  (spot_ticks,
\* spot_ltp, tick_count and the 1- and 15-minute aggregators are written too;
\* nothing on the engine path reads them, and they are left out.)
ProcessTick(price, dt, fetched) ==
    /\ tick_pc = "idle"
    /\ \E r \in {CheckLiveTick(spot_strategy, price, fetched)} :
        LET fired == r.signal # NoSignal
        IN  /\ spot_5min' = UpdateFromTick(spot_5min, clock + dt, price, TimeframeMinutes)
            /\ Len(AllCandles(spot_5min')) <= MaxCandles
            /\ fired => signals_for_D < MaxSignals /\ r.engine.signal_counter <= MaxSignals
            /\ clock' = clock + dt
            /\ spot_strategy' = r.engine
            /\ signal_data' = r.signal
            /\ tick_pc' = IF fired THEN "place_order" ELSE "idle"
            /\ live' = [price |-> price, before |-> spot_strategy, signal |-> r.signal,
                        upd_pc |-> upd_pc]
            /\ signals_for_D' = IF fired THEN signals_for_D + 1 ELSE signals_for_D
            /\ UNCHANGED <<brokerVars, aggVars, libVars, upd_pc, upd_i, spot_df, current_structure, orders_for_D>>

\* The order id the broker returns for an accepted order.
OrderId == 1

\* _check_breakout_signals, second half: place_order on the engine that
\* self.spot_strategy names now; accepted says whether the broker returned
\* an order id.
PlaceOrder(accepted) ==
    LET order_id == IF accepted THEN OrderId ELSE None
        e == StrategyPlaceOrder(spot_strategy, signal_data, order_id)
        placed == e.order_counter > spot_strategy.order_counter
    IN  /\ tick_pc = "place_order"
        /\ placed => orders_for_D < MaxOrders
        /\ spot_strategy' = e
        /\ orders_for_D' = IF placed THEN orders_for_D + 1 ELSE orders_for_D
        /\ tick_pc' = "idle"
        /\ signal_data' = NoSignal
        /\ live' = NoLive
        /\ UNCHANGED <<brokerVars, aggVars, libVars, spot_5min, clock, upd_pc, upd_i, spot_df, current_structure,
                       signals_for_D>>

\* _update_strategies, lines 288-306: read the window and the thirteen fields.
UpdateBegin ==
    /\ upd_pc = "sleep"
    /\ spot_df' = GetDataframe(spot_5min)
    /\ current_structure' = StructureSnapshot(spot_strategy)
    /\ upd_pc' = "create"
    /\ live' = NoLive
    /\ UNCHANGED <<brokerVars, aggVars, libVars, spot_5min, spot_strategy, clock, tick_pc, signal_data, upd_i,
                   orders_for_D, signals_for_D>>

\* line 309: self.spot_strategy = BullishSwingStrategy(spot_df, self.broker)
UpdateCreate ==
    LET restores == current_structure.pending_setup # NoSetup
    IN  /\ upd_pc = "create"
        /\ spot_strategy' = NewEngine(spot_df)
        /\ upd_pc' = IF restores THEN "restore" ELSE "generate"
        /\ upd_i' = IF restores THEN 1 ELSE 0
        /\ orders_for_D' = IF restores THEN orders_for_D ELSE 0
        /\ signals_for_D' = IF restores THEN signals_for_D ELSE 0
        /\ live' = NoLive
        /\ UNCHANGED <<brokerVars, aggVars, libVars, spot_5min, clock, tick_pc, signal_data, spot_df,
                       current_structure>>

\* lines 313-325, one assignment at a time
UpdateRestore ==
    /\ upd_pc = "restore"
    /\ spot_strategy' = RestoreField(spot_strategy, current_structure, upd_i)
    /\ upd_pc' = IF upd_i = Len(RestoreOrder) THEN "generate" ELSE "restore"
    /\ upd_i' = IF upd_i = Len(RestoreOrder) THEN 0 ELSE upd_i + 1
    /\ live' = NoLive
    /\ UNCHANGED <<brokerVars, aggVars, libVars, spot_5min, clock, tick_pc, signal_data, spot_df, current_structure,
                   orders_for_D, signals_for_D>>

\* line 328, generate_signals: initialize_H1_L1 ...
UpdateGenerateInit ==
    /\ upd_pc = "generate"
    /\ upd_i = 0
    /\ spot_strategy' = InitializeH1L1(spot_strategy)
    /\ upd_i' = 1
    /\ live' = NoLive
    /\ UNCHANGED <<brokerVars, aggVars, libVars, spot_5min, clock, tick_pc, signal_data, upd_pc, spot_df,
                   current_structure, orders_for_D, signals_for_D>>

\* ... then one candle per step
UpdateGenerateStep(fetched) ==
    /\ upd_pc = "generate"
    /\ upd_i >= 1
    /\ upd_i < Len(spot_strategy.data)
    /\ spot_strategy' = GenerateStep(spot_strategy, upd_i, fetched)
    /\ upd_i' = upd_i + 1
    /\ orders_for_D' = IF TouchesD(spot_strategy, upd_i) THEN 0 ELSE orders_for_D
    /\ signals_for_D' = IF TouchesD(spot_strategy, upd_i) THEN 0 ELSE signals_for_D
    /\ live' = NoLive
    /\ UNCHANGED <<brokerVars, aggVars, libVars, spot_5min, clock, tick_pc, signal_data, upd_pc, spot_df,
                   current_structure>>

\* the loop is over; print_current_structure only logs; back to sleep(300).
\* After the first pass start() calls _start_websocket.
UpdateEnd ==
    /\ upd_pc = "generate"
    /\ upd_i >= 1
    /\ upd_i >= Len(spot_strategy.data)
    /\ upd_pc' = "sleep"
    /\ tick_pc' = IF tick_pc = "off" THEN "idle" ELSE tick_pc
    /\ upd_i' = 0
    /\ spot_df' = <<>>
    /\ current_structure' = NoStructureSnapshot
    /\ live' = NoLive
    /\ UNCHANGED <<brokerVars, aggVars, libVars, spot_5min, spot_strategy, clock, signal_data,
                   orders_for_D, signals_for_D>>

Next ==
    \/ \E price \in TickPrices, dt \in {0, TimeframeMinutes}, fetched \in FetchOptionChain :
           ProcessTick(price, dt, fetched)
    \/ \E accepted \in BOOLEAN : PlaceOrder(accepted)
    \/ UpdateBegin
    \/ UpdateCreate
    \/ UpdateRestore
    \/ UpdateGenerateInit
    \/ \E fetched \in FetchOptionChain : UpdateGenerateStep(fetched)
    \/ UpdateEnd

Spec == Init /\ [][Next]_vars

\* ---------------------------------------------------------- broker calls
\* The broker on its own: the application calls its three rate-governed
\* methods one after another, dt milliseconds after the previous one
\* returned, and the provider answers as it likes.

Delays == {0, WindowMs}

PlaceOutcomes == {"id", "rejected", "raise"}

StatusOutcomes ==
    { <<"data", "data", "data">>, <<"nodata", "raise", "data">>,
      <<"raise", "nodata", "nodata">>, <<"raise", "raise", "raise">> }

GreeksOutcomes ==
    { <<"ok", "ok", "ok">>, <<"error", "rate_limited", "ok">>,
      <<"raise", "error", "rate_limited">> }

Jitters == {0, 100}

\* The application before any market data: no candles, an engine on nothing.
BrokerInit ==
    /\ spot_5min = NewAggregator
    /\ spot_strategy = NewEngine(<<>>)
    /\ clock = 0
    /\ tick_pc = "idle"
    /\ signal_data = NoSignal
    /\ upd_pc = "sleep"
    /\ upd_i = 0
    /\ spot_df = <<>>
    /\ current_structure = NoStructureSnapshot
    /\ live = NoLive
    /\ orders_for_D = 0
    /\ signals_for_D = 0
    /\ now = WindowMs
    /\ broker = NewBroker(now)
    /\ calls = <<>>
    /\ issued = 0
    /\ returned = NoReturn
    /\ AggIdle
    /\ LibIdle

CallPlaceOrder(dt, connected, outcome) ==
    \E r \in {BrokerPlaceOrder(broker, now + dt, connected, outcome)} :
        /\ issued < MaxCalls
        /\ issued' = issued + 1
        /\ broker' = r.broker
        /\ now' = r.time
        /\ calls' = calls \o r.calls
        /\ returned' = [method |-> "place_order", began |-> now + dt,
                        outcomes |-> <<outcome>>, calls |-> r.calls,
                        time |-> r.time,
                        result |-> IF r.order_id = None THEN "None" ELSE "data"]
        /\ UNCHANGED <<appVars, aggVars, libVars>>

CallCheckOrderStatus(dt, order_id, outcomes) ==
    \E r \in {BrokerCheckOrderStatus(broker, now + dt, order_id, outcomes)} :
        /\ issued < MaxCalls
        /\ issued' = issued + 1
        /\ broker' = r.broker
        /\ now' = r.time
        /\ calls' = calls \o r.calls
        /\ returned' = [method |-> "check_order_status", began |-> now + dt,
                        outcomes |-> outcomes, calls |-> r.calls,
                        time |-> r.time, result |-> r.result]
        /\ UNCHANGED <<appVars, aggVars, libVars>>

CallGetOptionGreeks(dt, connected, outcomes, jitter) ==
    \E r \in {BrokerGetOptionGreeks(now + dt, connected, outcomes, jitter)} :
        /\ issued < MaxCalls
        /\ issued' = issued + 1
        /\ now' = r.time
        /\ calls' = calls \o r.calls
        /\ returned' = [method |-> "get_option_greeks", began |-> now + dt,
                        outcomes |-> outcomes, calls |-> r.calls,
                        time |-> r.time, result |-> r.result]
        /\ UNCHANGED <<broker, appVars, aggVars, libVars>>

BrokerNext ==
    \/ \E dt \in Delays, connected \in BOOLEAN, outcome \in PlaceOutcomes :
           CallPlaceOrder(dt, connected, outcome)
    \/ \E dt \in Delays, order_id \in {None, OrderId}, outcomes \in StatusOutcomes :
           CallCheckOrderStatus(dt, order_id, outcomes)
    \/ \E dt \in Delays, connected \in BOOLEAN, outcomes \in GreeksOutcomes, jitter \in Jitters :
           CallGetOptionGreeks(dt, connected, outcomes, jitter)

SpecBroker == BrokerInit /\ [][BrokerNext]_vars

\* ------------------------------------------------------- aggregator calls
\* One LiveOHLCVData of the 5-minute timeframe on its own: ticks arrive with
\* any timestamps, with or without a volume field; it is seeded from
\* historical rows; its latest candles are read.

MaxTicks == 3

MaxSeeds == 1

\* tick['timestamp'] in minutes: buckets 0, 5 and 5
TickTimes == {3, 5, 7}

\* item['volume'] copied into the tick when present (None: no such field)
TickVolumes == {None, 2}

\* Historical rows: none, two rows in time order, two rows out of order.
SeedHistories ==
    { <<>>,
      <<Candle(0, 4, 7, 4, 7, 1), Candle(5, 7, 7, 4, 4, 1)>>,
      <<Candle(5, 7, 7, 4, 4, 1), Candle(0, 4, 7, 4, 7, 1)>> }

Limits == 0..3

\* update_from_tick(tick): only tick['timestamp'] and tick['ltp'] are read.
AggTick(tick_time, price, volume) ==
    /\ ticks < MaxTicks
    /\ agg' = UpdateFromTick(agg, tick_time, price, TimeframeMinutes)
    /\ touched' = touched \cup {CandleStart(tick_time, TimeframeMinutes)}
    /\ ticks' = ticks + 1
    /\ last_op' = [NoOp EXCEPT !.op = "tick", !.before = agg, !.time = tick_time,
                               !.price = price, !.volume = volume]
    /\ UNCHANGED <<appVars, brokerVars, libVars, seeds>>

\* initialize_from_historical(historical_df)
AggSeed(historical) ==
    /\ seeds < MaxSeeds
    /\ agg' = InitializeFromHistorical(agg, historical)
    /\ seeds' = seeds + 1
    /\ last_op' = [NoOp EXCEPT !.op = "seed", !.before = agg, !.rows = historical,
                               !.result = InitializeFromHistoricalReturns(historical)]
    /\ UNCHANGED <<appVars, brokerVars, libVars, touched, ticks>>

\* get_latest_candles(limit)
AggSnapshot(limit) ==
    /\ last_op.op # "snapshot"
    /\ last_op' = [NoOp EXCEPT !.op = "snapshot", !.before = agg, !.limit = limit,
                               !.result = GetLatestCandles(agg, limit)]
    /\ UNCHANGED <<appVars, brokerVars, libVars, agg, touched, ticks, seeds>>

AggNext ==
    \/ \E tick_time \in TickTimes, price \in TickPrices, volume \in TickVolumes :
           AggTick(tick_time, price, volume)
    \/ \E historical \in SeedHistories : AggSeed(historical)
    \/ \E limit \in Limits : AggSnapshot(limit)

SpecAggregator == BrokerInit /\ [][AggNext]_vars

\* ----------------------------------------------------------- engine calls
\* One BullishSwingStrategy on its own: it is built on a candle frame and
\* generate_signals runs over it, one loop iteration per step.

\* Rows with the given lows whose highs lie offs[k] above them.
RowsAbove(lows, offs) == HistoryRows([k \in 1..Len(lows) |-> lows[k] + offs[k]], lows)

HighOffsets == {1, 3}

\* Lows of the frames: a whole structure with room for a breakout; an early
\* L1 update; a setup followed by a swing low below L1; a setup followed by
\* a swing high above H1; equal neighbouring lows; a candle that is a swing
\* low and a swing high at once; short frames.  One more frame has an H1
\* (9 at index 1) above the D of its structure (6 at index 5).
LowPatterns ==
    { <<1, 3, 2, 4, 3, 5, 4, 6>>,
      <<2, 1, 3, 2, 4, 3, 5, 4>>,
      <<2, 4, 3, 5, 4, 6, 5, 1, 3>>,
      <<2, 4, 3, 5, 4, 6, 5, 7, 6>>,
      <<1, 3, 2, 2, 4, 3, 3, 5, 4>>,
      <<1, 3, 2, 4, 3, 5, 4>>,
      <<2, 1, 2, 3>>, <<2, 3, 2>>, <<3, 2>>, <<3>>, <<>> }

\* The six candles of the worked example, prices in units of 0.05: lows 100,
\* 95, (free), 105, 102, 108 and a high of 110 at index 2; the other highs
\* lie 1 or 2 above their lows.
ExampleFrames ==
    { [RowsAbove(<<2000, 1900, low2, 2100, 2040, 2160>>, offs) EXCEPT ![3].high = 2200] :
          low2 \in {2100, 2150}, offs \in [1..6 -> {20, 40}] }

\* Frames in which one row has no 'high'.
DefectiveFrames ==
    UNION { { [RowsAbove(<<1, 3, 2, 4, 3, 5, 4>>, offs) EXCEPT ![k].high = None] :
                  offs \in [1..7 -> HighOffsets] } : k \in 1..7 }

EngineFrames ==
    UNION { { RowsAbove(lows, offs) : offs \in [1..Len(lows) -> HighOffsets] } :
            lows \in LowPatterns }
        \cup {HistoryRows(<<2, 9, 3, 5, 4, 6, 5>>, <<1, 3, 2, 4, 3, 5, 4>>)}
        \cup ExampleFrames \cup DefectiveFrames

\* BullishSwingStrategy(data, broker)
EngineCreate(data) ==
    /\ eng_pc = "new"
    /\ eng' = NewEngine(data)
    /\ eng_pc' = "init"
    /\ eng_before' = eng
    /\ UNCHANGED <<appVars, brokerVars, aggVars, eng_i, eng_calls, opt_call>>

\* generate_signals: initialize_H1_L1 ...
EngineInit ==
    /\ eng_pc = "init"
    /\ eng' = InitializeH1L1(eng)
    /\ eng_pc' = "loop"
    /\ eng_i' = 1
    /\ eng_before' = eng
    /\ eng_calls' = eng_calls + 1
    /\ UNCHANGED <<appVars, brokerVars, aggVars, opt_call>>

\* ... one iteration of the loop; an exception ends the call ...
EngineStep(fetched) ==
    /\ eng_pc = "loop"
    /\ eng_i < Len(eng.data)
    /\ \E r \in {GenerateStepOutcome(eng, eng_i, fetched)} :
           /\ eng' = r.engine
           /\ eng_pc' = IF r.raised THEN "raised" ELSE "loop"
    /\ eng_i' = eng_i + 1
    /\ eng_before' = eng
    /\ UNCHANGED <<appVars, brokerVars, aggVars, eng_calls, opt_call>>

\* ... return self.signals
EngineReturn ==
    /\ eng_pc = "loop"
    /\ eng_i >= Len(eng.data)
    /\ eng_pc' = "done"
    /\ UNCHANGED <<appVars, brokerVars, aggVars, eng, eng_i, eng_before, eng_calls, opt_call>>

EngineNext ==
    \/ \E data \in EngineFrames : EngineCreate(data)
    \/ EngineInit
    \/ \E fetched \in FetchOptionChain : EngineStep(fetched)
    \/ EngineReturn

SpecEngine == BrokerInit /\ [][EngineNext]_vars

\* generate_signals is called again on the same engine: initialize_H1_L1
\* re-seeds L1 and clears H1, everything else is as the last call left it.
MaxGenerateCalls == 2

EngineAgain ==
    /\ eng_pc = "done"
    /\ eng_calls < MaxGenerateCalls
    /\ eng' = InitializeH1L1(eng)
    /\ eng_pc' = "loop"
    /\ eng_i' = 1
    /\ eng_before' = eng
    /\ eng_calls' = eng_calls + 1
    /\ UNCHANGED <<appVars, brokerVars, aggVars, opt_call>>

EngineTwiceNext ==
    \/ EngineNext
    \/ EngineAgain

SpecEngineTwice == BrokerInit /\ [][EngineTwiceNext]_vars

\* ----------------------------------------------------------- option calls
\* One call of OptionData.calculate_stop_loss or of
\* OptionData.select_optimal_strike on rows of an options table.

MaxRows == 2

\* Rows of the table.  With an underlying move of 100 (price 20000) the risk
\* of one lot of 75 is: theta -9504: 825; theta -10080: 875; delta 1/10: 750
\* (825 for a move of 110); theta -10944: 950; theta -4752: 412.5 (825 for
\* two lots; last price 5 lies below the risk per unit); delta -1/10: negative;
\* no Greeks and no price: 0; theta -10368: 900; gamma 1/500: 750.
NumericRows ==
    { OptionRow("T9504", RInt(0), RInt(0), RInt(0 - 9504), RInt(100)),
      OptionRow("T10080", RInt(0), RInt(0), RInt(0 - 10080), RInt(100)),
      OptionRow("D1", Rat(1, 10), RInt(0), RInt(0), RInt(100)),
      OptionRow("T10944", RInt(0), RInt(0), RInt(0 - 10944), RInt(100)),
      OptionRow("T4752", RInt(0), RInt(0), RInt(0 - 4752), RInt(5)),
      OptionRow("DNEG", Rat(0 - 1, 10), RInt(0), RInt(0), RInt(100)),
      OptionRow("ZERO", RInt(0), RInt(0), RInt(0), RInt(0)),
      OptionRow("T10368", RInt(0), RInt(0), RInt(0 - 10368), RInt(100)),
      OptionRow("G1", RInt(0), Rat(1, 500), RInt(0), RInt(100)) }

\* A row whose delta does not convert, and a row without Greeks.
DefectiveRows ==
    { OptionRow("BAD", Malformed, RInt(0), RInt(0 - 9504), RInt(100)),
      OptionRow("NOGREEKS", RNone, RNone, RNone, RInt(100)) }

\* Options calculate_stop_loss is called on: the numeric rows, and an
\* option trading at one tick, 0.05, with delta 1/10.
StopLossRows ==
    NumericRows \cup {OptionRow("P005", Rat(1, 10), RInt(0), RInt(0), Rat(1, 20))}

OptionTables == UNION { [1..n -> NumericRows \cup DefectiveRows] : n \in 0..MaxRows }

\* Underlying prices, in currency units: the stop 0.5% below is 100 or 110 away.
CurrentPrices == {RInt(20000), RInt(22000)}

\* option.calculate_stop_loss(underlying_entry, underlying_sl)
OptCalculateStopLoss(data, underlying_entry, underlying_sl) ==
    /\ opt_call.op = "none"
    /\ opt_call' = [NoCall EXCEPT !.op = "stop_loss",
                                  !.option = OptionDataInit(data),
                                  !.entry = underlying_entry, !.stop = underlying_sl,
                                  !.after = CalculateStopLoss(OptionDataInit(data),
                                                              underlying_entry, underlying_sl)]
    /\ UNCHANGED <<appVars, brokerVars, aggVars, eng, eng_pc, eng_i, eng_before, eng_calls>>

\* OptionData.select_optimal_strike(options_data, current_price, (800, 900), 75)
OptSelectOptimalStrike(options_data, current_price) ==
    /\ opt_call.op = "none"
    /\ \E r \in {SelectOptimalStrikeOutcome(options_data, current_price, TARGET_RISK_MIN,
                                              TARGET_RISK_MAX, DEFAULT_LOT_SIZE)} :
           opt_call' = [NoCall EXCEPT !.op = "select", !.table = options_data,
                                      !.price = current_price, !.raised = r.raised,
                                      !.selection = r.selection]
    /\ UNCHANGED <<appVars, brokerVars, aggVars, eng, eng_pc, eng_i, eng_before, eng_calls>>

OptionNext ==
    \/ \E data \in StopLossRows, entry \in CurrentPrices, stop \in CurrentPrices :
           OptCalculateStopLoss(data, entry, RMul(stop, Rat(995, 1000)))
    \/ \E options_data \in OptionTables, current_price \in CurrentPrices :
           OptSelectOptimalStrike(options_data, current_price)

SpecOption == BrokerInit /\ [][OptionNext]_vars

\* ================================================================ properties

C2_TickExcludesUpdate ==
    live.price # None => live.upd_pc \notin {"restore", "generate"}

\* The windows a resume may be given: the old window, or the old window and
\* one more candle.
ResumeWindows(e) ==
    {e.data} \cup {Append(e.data, Candle(Len(e.data) + 1, p, p, p, p, 0)) : p \in TickPrices}

\* Window w extends the engine's window with candles that do not exceed D,
\* and no candle of w is an L1 or H1 update against the engine's L1 and H1.
BenignExtension(e, w) ==
    LET on_w == [e EXCEPT !.data = w]
    IN  /\ \A k \in (Len(e.data) + 1)..Len(w) : w[k].high <= e.D
        /\ \A i \in 1..(Len(w) - 1) : ~L1Updates(on_w, i) /\ ~H1Updates(on_w, i)

\* C3: resume round trip.  The points and PendingSetup of an engine with an
\* unfired setup, restored into a new engine on a window that extends the
\* old one only with candles that neither exceed D nor update L1/H1, are
\* after generate_signals equal to the snapshot, and no signal row is
\* recorded.
C3_ResumeRoundTrip ==
    (upd_pc = "sleep" /\ spot_strategy.pending_setup # NoSetup) =>
        \A w \in ResumeWindows(spot_strategy), fetched \in FetchOptionChain :
            BenignExtension(spot_strategy, w) =>
                LET snapshot == StructureSnapshot(spot_strategy)
                    resumed == GenerateSignals(Restore(NewEngine(w), snapshot), fetched)
                IN  /\ StructureSnapshot(resumed) = snapshot
                    /\ \A k \in 1..Len(w) : resumed.signals[k] = NoSignalRow

\* The batch context on the same engine and the same price: the breakout
\* block of generate_signals on one more candle whose high is the price.
BatchOnPrice(e, price) ==
    StepBreakout([e EXCEPT !.data = Append(@, Candle(Len(@) + 1, price, price, price, price, 0)),
                           !.signals = Append(@, NoSignalRow)],
                 Len(e.data))

PointValues(e) == <<e.H1, e.L1, e.A, e.B, e.C, e.D, e.pending_setup>>

\* C4: the batch and the live context agree on breakout: for the same D and
\* the same price both fire or both do not (fire iff price > D), and after
\* firing both leave the same points: all six cleared, PendingSetup
\* destroyed, L1 re-seeded from the triggering candle or tick.
C4_BatchLiveEquivalent ==
    (live.price # None /\ live.before.pending_setup # NoSetup) =>
        LET fired_live == live.signal # NoSignal
            fired_batch == live.price > live.before.D
        IN  /\ fired_live <=> fired_batch
            /\ fired_live =>
                   PointValues(spot_strategy) = PointValues(BatchOnPrice(live.before, live.price))

C6_LiveTickReturnsSignal ==
    (/\ live.price # None
     /\ live.before.pending_setup # NoSetup
     /\ live.before.order_counter < MAX_SIGNAL_ATTEMPTS
     /\ live.price > live.before.D) =>
        /\ live.signal # NoSignal
        /\ live.signal.entry_price = live.before.pending_setup.entry_price
        /\ live.signal.stop_loss = live.before.pending_setup.stop_loss
        /\ live.signal.target = live.before.pending_setup.target
        /\ live.signal.option_data # NoOption
        /\ live.signal.quantity # None
        /\ live.signal.total_risk # RNone

\* Point value and index agree with the engine's own candle sequence.
LowAt(e, idx, value) ==
    value # None => (idx # None /\ idx >= 0 /\ idx < Len(e.data) /\ Low(e, idx) = value)

HighAt(e, idx, value) ==
    value # None => (idx # None /\ idx >= 0 /\ idx < Len(e.data) /\ High(e, idx) = value)

\* C7: in every engine state, also after a re-creation on the latest window
\* followed by restore, each set point is the low (L1, A, B, C) or the high
\* (H1, D) of the candle at its index in the engine's own candle sequence.
C7_PointsIndexTheirCandles ==
    upd_pc = "sleep" =>
        LET e == spot_strategy
        IN  /\ LowAt(e, e.L1_idx, e.L1) /\ HighAt(e, e.H1_idx, e.H1)
            /\ LowAt(e, e.A_idx, e.A) /\ LowAt(e, e.B_idx, e.B)
            /\ LowAt(e, e.C_idx, e.C) /\ HighAt(e, e.D_idx, e.D)

\* The provider calls of one class, in the order they were issued.
CallsOf(class) == SelectSeq(calls, LAMBDA c : c.class = class)

\* How many calls of log were counted in rate window w.
InWindow(log, w) == Cardinality({k \in DOMAIN log : log[k].window = w})

\* C8: order placement per-minute cap.  Of the place_order calls issued
\* within one rate window, at most the cap reach the provider in that window
\* (the rest wait for the window boundary, which opens a new window), and
\* every place_order call reaches the provider.
C8_OrderMinuteCap ==
    LET log == CallsOf("placeOrder")
    IN  \A k \in DOMAIN log : InWindow(log, log[k].window) <= MinuteCap

\* How many calls of log were issued in the 60 seconds that begin with call k.
Within60s(log, k) ==
    Cardinality({j \in DOMAIN log : log[j].at >= log[k].at /\ log[j].at < log[k].at + WindowMs})

\* C9: status polling and Greeks fetch each have a per-minute counter: the
\* orderBook calls counted in one rate window, retries included, never
\* exceed the cap, and neither do the optionGreek calls issued within any
\* 60 seconds.
C9_StatusAndGreeksMinuteCap ==
    /\ LET log == CallsOf("orderBook")
       IN  \A k \in DOMAIN log : InWindow(log, log[k].window) <= MinuteCap
    /\ LET log == CallsOf("optionGreek")
       IN  \A k \in DOMAIN log : Within60s(log, k) <= MinuteCap

\* Consecutive calls of log are at least MIN_REQUEST_INTERVAL_MS apart.
Spaced(log) ==
    \A k \in 1..(Len(log) - 1) : log[k + 1].at - log[k].at >= MIN_REQUEST_INTERVAL_MS

\* C10: any two consecutive provider calls of order placement, and of status
\* polling, are at least MIN_REQUEST_INTERVAL_MS apart, also when the
\* earlier one raised or returned a failure.
C10_MinimumSpacing == Spaced(CallsOf("placeOrder")) /\ Spaced(CallsOf("orderBook"))

\* C11: in get_option_greeks a non-transient failure (an error response
\* without a rate-limit signature, or an exception) is not retried: the
\* attempt that met it is the last optionGreek call of the invocation.
C11_NonTransientNotRetried ==
    returned.method = "get_option_greeks" =>
        \A k \in DOMAIN returned.calls :
            returned.outcomes[k] \in {"error", "raise"} => k = Len(returned.calls)

\* C12: in get_option_greeks, after a rate-limit error on attempt k - 1
\* (0-based; the k-th call) the next call is issued min(5 * k, 30) seconds
\* after it, and when no call follows the invocation returns without waiting.
C12_RateLimitWait ==
    returned.method = "get_option_greeks" =>
        \A k \in DOMAIN returned.calls :
            returned.outcomes[k] = "rate_limited" =>
                IF k < Len(returned.calls)
                THEN returned.calls[k + 1].at - returned.calls[k].at = Min2(5 * k, 30) * 1000
                ELSE returned.time = returned.calls[k].at

\* The k-th provider call of the invocation that has just returned failed.
AttemptFailed(k) ==
    IF returned.method = "get_option_greeks"
    THEN returned.outcomes[k] # "ok"
    ELSE returned.outcomes[k] # "data"

\* C13: one invocation of get_option_greeks or of check_order_status issues
\* at most max_retries provider calls whatever the provider answers, never
\* lets an exception reach the caller, and returns None when every attempt
\* failed.
C13_RetryLoopsBounded ==
    returned.method \in {"get_option_greeks", "check_order_status"} =>
        /\ Len(returned.calls) <= MaxRetries
        /\ returned.result \in {"data", "None"}
        /\ (\A k \in DOMAIN returned.calls : AttemptFailed(k)) => returned.result = "None"

\* An order-status poll whose provider raised on every attempt of its budget.
C13_BudgetExhausted ==
    /\ returned.method = "check_order_status"
    /\ Len(returned.calls) = MaxRetries
    /\ \A k \in DOMAIN returned.calls : returned.outcomes[k] = "raise"
    /\ returned.result = "None"

\* The websocket thread is free to run _process_tick for the next message.
TickIngestible ==
    ENABLED (\E price \in TickPrices, dt \in {0, TimeframeMinutes}, fetched \in FetchOptionChain :
                 ProcessTick(price, dt, fetched))

C15_CandlesCountBuckets ==
    seeds = 0 => Len(AllCandles(agg)) = Cardinality(touched)

\* C16: after any sequence of initialize_from_historical and
\* update_from_tick calls the candles (completed, then in-progress) have
\* strictly increasing times, so no time repeats, also for the first tick
\* after seeding.
C16_StrictlyIncreasingOpenTime ==
    \A k \in 1..(Len(AllCandles(agg)) - 1) :
        AllCandles(agg)[k].time < AllCandles(agg)[k + 1].time

\* The call that has just returned was update_from_tick with a tick whose
\* bucket is earlier than that of the candle then in progress.
LateTick ==
    /\ last_op.op = "tick"
    /\ last_op.before.current_candle # NoCandle
    /\ CandleStart(last_op.time, TimeframeMinutes) < last_op.before.current_candle.time

\* C17: a tick whose bucket is earlier than the in-progress candle's is a
\* silent no-op: the in-progress candle and the completed sequence are as
\* they were.
C17_LateTickIsNoOp == LateTick => agg = last_op.before

\* C17, amended: a tick whose bucket is earlier than the in-progress
\* candle's is merged into the in-progress candle like a tick of its own
\* bucket: high and low take in the price and close becomes the price;
\* time, open, volume and the completed sequence are as they were.
C17_LateTickMerges ==
    LateTick =>
        /\ agg.completed_candles = last_op.before.completed_candles
        /\ agg.current_candle =
               [last_op.before.current_candle EXCEPT
                    !.high = Max2(@, last_op.price),
                    !.low = Min2(@, last_op.price),
                    !.close = last_op.price]

\* A late tick has changed the in-progress candle.
C17_LateTickChangedCandle ==
    LateTick /\ agg.current_candle # last_op.before.current_candle

\* The call that has just returned was update_from_tick with a tick of the
\* bucket of the candle then in progress.
SameBucketTick ==
    /\ last_op.op = "tick"
    /\ last_op.before.current_candle # NoCandle
    /\ CandleStart(last_op.time, TimeframeMinutes) = last_op.before.current_candle.time

\* C18: the in-progress candle's volume grows by the volume field of each
\* tick of its bucket that carries one and is left as it was by a tick
\* that carries none.
C18_VolumeAccumulated ==
    SameBucketTick =>
        agg.current_candle.volume =
            last_op.before.current_candle.volume
                + (IF last_op.volume = None THEN 0 ELSE last_op.volume)

\* The candles initialize_from_historical has just appended.
SeedAppended ==
    SubSeq(agg.completed_candles, Len(last_op.before.completed_candles) + 1,
           Len(agg.completed_candles))

\* How often candle c occurs in the sequence s.
Occurrences(s, c) == Cardinality({k \in DOMAIN s : s[k] = c})

\* C19: initialize_from_historical appends the historical rows to the
\* completed sequence in ascending timestamp order and leaves the
\* in-progress candle as it was; for an empty series it returns failure and
\* changes nothing.
C19_SeedAppendsSorted ==
    last_op.op = "seed" =>
        /\ agg.current_candle = last_op.before.current_candle
        /\ IF last_op.rows = <<>>
           THEN last_op.result = FALSE /\ agg = last_op.before
           ELSE /\ last_op.result = TRUE
                /\ Len(agg.completed_candles) =
                       Len(last_op.before.completed_candles) + Len(last_op.rows)
                /\ SubSeq(agg.completed_candles, 1, Len(last_op.before.completed_candles))
                       = last_op.before.completed_candles
                /\ \A k \in DOMAIN last_op.rows :
                       Occurrences(SeedAppended, last_op.rows[k])
                           = Occurrences(last_op.rows, last_op.rows[k])
                /\ \A k \in 1..(Len(SeedAppended) - 1) :
                       SeedAppended[k].time <= SeedAppended[k + 1].time

\* Rows given out of time order were seeded while a candle was in progress.
C19_SeededOutOfOrder ==
    /\ last_op.op = "seed"
    /\ last_op.before.current_candle # NoCandle
    /\ \E k \in 1..(Len(last_op.rows) - 1) : last_op.rows[k].time > last_op.rows[k + 1].time
    /\ last_op.result = TRUE

\* C20: for every limit >= 0, get_latest_candles(limit) returns exactly the
\* min(limit, total) most recent candles in ascending order, the
\* in-progress candle last when there is one, and never more than limit.
C20_SnapshotMostRecent ==
    last_op.op = "snapshot" =>
        LET all == IF agg.current_candle # NoCandle
                   THEN agg.completed_candles \o <<agg.current_candle>>
                   ELSE agg.completed_candles
            n == Min2(last_op.limit, Len(all))
        IN  /\ last_op.result = SubSeq(all, Len(all) - n + 1, Len(all))
            /\ Len(last_op.result) <= last_op.limit

\* ------------------------------------------------- engine on its own
\* The loop iteration that has just been taken, and whether one was taken
\* and ran to its end.
SteppedIndex == eng_i - 1

Stepped == eng_pc \in {"loop", "done"} /\ eng_i >= 2

\* The points and prices of a setup, pending or already turned into a signal.
SetupSound(st, entry_price, stop_loss, target) ==
    /\ st.D.idx \in st.B.idx..st.C.idx
    /\ High(eng, st.D.idx) = st.D.value
    /\ \A k \in st.B.idx..st.C.idx : High(eng, k) <= st.D.value
    /\ entry_price = st.D.value + Buffer
    /\ stop_loss = st.C.value - Buffer
    /\ target = entry_price + 2 * (entry_price - stop_loss)

\* C21: for every PendingSetup created by generate_signals, D is the
\* maximum high over the inclusive candle range [B_idx, C_idx] with D_idx
\* inside that range, entry_price = D + 0.05, stop_loss = C - 0.05 and
\* target = entry_price + 2 * (entry_price - stop_loss).
C21_SetupFromHighestHigh ==
    /\ eng.pending_setup # NoSetup =>
           SetupSound(eng.pending_setup.structure, eng.pending_setup.entry_price,
                      eng.pending_setup.stop_loss, eng.pending_setup.target)
    /\ \A k \in DOMAIN eng.structures :
           SetupSound(eng.structures[k].points, eng.structures[k].entry.value,
                      eng.structures[k].stop_loss.value, eng.structures[k].target.value)

\* A setup has just been created whose D is the high of the C candle.
C21_SetupCreatedAtC ==
    /\ Stepped
    /\ eng_before.pending_setup = NoSetup
    /\ eng.pending_setup # NoSetup
    /\ eng.D_idx = eng.C_idx
    /\ eng.C_idx > eng.B_idx

\* The points are all cleared and the setup is cancelled.
Cleared(e, points) ==
    /\ \A p \in points : e[p] = None
    /\ e.pending_setup = NoSetup

\* C22: an L1 update (swing low below L1) clears H1, A, B, C, D and cancels
\* the PendingSetup; an H1 update (swing high above the current H1) clears
\* A, B, C, D and cancels the PendingSetup while leaving L1 unchanged; no
\* PendingSetup survives the invalidation of a point it was derived from.
C22_InvalidationCascade ==
    /\ Stepped /\ L1Updates(eng_before, SteppedIndex) =>
           /\ eng.L1 = Low(eng, SteppedIndex) /\ eng.L1_idx = SteppedIndex
           /\ Cleared(eng, {"H1", "A", "B", "C", "D",
                            "H1_idx", "A_idx", "B_idx", "C_idx", "D_idx"})
    /\ Stepped /\ ~L1Updates(eng_before, SteppedIndex)
               /\ H1Updates(eng_before, SteppedIndex) =>
           /\ eng.H1 = High(eng, SteppedIndex) /\ eng.H1_idx = SteppedIndex
           /\ eng.L1 = eng_before.L1 /\ eng.L1_idx = eng_before.L1_idx
           /\ Cleared(eng, {"A", "B", "C", "D", "A_idx", "B_idx", "C_idx", "D_idx"})
    /\ eng.pending_setup # NoSetup =>
           /\ \A p \in {"H1", "L1", "A", "B", "C", "D"} : eng[p] # None
           /\ eng.pending_setup.structure = SetupStructure(eng)

\* An L1 update or an H1 update has just cancelled a pending setup.
C22_SetupCancelled ==
    /\ Stepped
    /\ eng_before.pending_setup # NoSetup
    /\ \/ L1Updates(eng_before, SteppedIndex)
       \/ H1Updates(eng_before, SteppedIndex)

\* C25: if a candle row lacks a required field (high or low),
\* generate_signals skips that index and continues with the next one; no
\* exception leaves generate_signals and the rows after the defective one
\* are still evaluated.
C25_MissingFieldSkipped == eng_pc # "raised"

\* The engine as the blocks before the C block of an iteration leave it.
BeforeCBlock(e, i) == StepB(StepA(StepH1(StepL1(e, i), i), i), i)

CFields(e) == <<e.C, e.C_idx, e.D, e.D_idx, e.pending_setup>>

\* C26: if computing D or the setup fails inside the C-formation step, the
\* engine is left in the state it had before that step: C, D, their indices
\* and PendingSetup are all unchanged (C is not left set without D).
C26_FailedDLeavesState ==
    (eng_pc = "raised" /\ CForms(BeforeCBlock(eng_before, SteppedIndex), SteppedIndex)) =>
        CFields(eng) = CFields(BeforeCBlock(eng_before, SteppedIndex))

\* The six candles of the worked example.
IsExample(data) ==
    /\ Len(data) = 6
    /\ \A k \in 1..6 : k # 3 => data[k].low = <<2000, 1900, 0, 2100, 2040, 2160>>[k]
    /\ data[3].high = 2200

\* C28 as stated: on the example sequence generate_signals yields L1 = 95 at
\* index 1, H1 = 110 at index 2, A = 105 at index 3, B = 102 at index 4,
\* C = 108 at index 5 and D = max(high[4..5]).
C28_ExamplePointsAsStated ==
    (eng_pc = "done" /\ IsExample(eng.data)) =>
        /\ eng.L1 = 1900 /\ eng.L1_idx = 1
        /\ eng.H1 = 2200 /\ eng.H1_idx = 2
        /\ eng.A = 2100 /\ eng.A_idx = 3
        /\ eng.B = 2040 /\ eng.B_idx = 4
        /\ eng.C = 2160 /\ eng.C_idx = 5
        /\ eng.D = Max2(High(eng, 4), High(eng, 5))

\* C28, amended: on the example sequence generate_signals yields L1 = 95 at
\* index 1, H1 = 110 at index 2 and A = 102 at index 4 (index 3 is no swing
\* low, its low lies above that of index 4); B, C and D stay unset, there
\* is no PendingSetup and no signal row.
C28_ExamplePoints ==
    (eng_pc = "done" /\ IsExample(eng.data)) =>
        /\ eng.L1 = 1900 /\ eng.L1_idx = 1
        /\ eng.H1 = 2200 /\ eng.H1_idx = 2
        /\ eng.A = 2040 /\ eng.A_idx = 4
        /\ Cleared(eng, {"B", "C", "D", "B_idx", "C_idx", "D_idx"})
        /\ \A k \in DOMAIN eng.signals : eng.signals[k] = NoSignalRow

\* generate_signals has run over the example sequence.
C28_ExampleDone == eng_pc = "done" /\ IsExample(eng.data) /\ eng.A_idx = 4

Numeric(data) == \A k \in DOMAIN data : data[k].high # None /\ data[k].low # None

\* C30: is_swing_high(i) holds iff 0 < i < n-1 and high[i] > high[i-1] and
\* high[i] > high[i+1], symmetrically for is_swing_low on low; indices 0
\* and n-1 are never flagged, and equal neighbouring values never produce a
\* swing.
C30_SwingIffStrictBothSides ==
    Numeric(eng.data) =>
        LET n == Len(eng.data)
            high == [i \in 0..(n - 1) |-> eng.data[i + 1].high]
            low == [i \in 0..(n - 1) |-> eng.data[i + 1].low]
        IN  \A i \in (0 - 1)..n :
                /\ IsSwingHigh(eng, i) <=>
                       (0 < i /\ i < n - 1 /\ high[i] > high[i - 1] /\ high[i] > high[i + 1])
                /\ IsSwingLow(eng, i) <=>
                       (0 < i /\ i < n - 1 /\ low[i] < low[i - 1] /\ low[i] < low[i + 1])
                /\ (i \in 1..(n - 2) /\ high[i] \in {high[i - 1], high[i + 1]})
                       => ~IsSwingHigh(eng, i)
                /\ (i \in 1..(n - 2) /\ low[i] \in {low[i - 1], low[i + 1]})
                       => ~IsSwingLow(eng, i)

\* A frame with a high equal to one neighbour's and above the other's, and
\* with a swing high elsewhere.
C30_EqualNeighbours ==
    /\ Numeric(eng.data)
    /\ \E i \in 1..(Len(eng.data) - 2) :
           High(eng, i) = High(eng, i + 1) /\ High(eng, i) > High(eng, i - 1)
    /\ \E i \in 1..(Len(eng.data) - 2) : IsSwingHigh(eng, i)

\* ------------------------------------------------- option calls
\* The rows of a table as select_optimal_strike sees them after
\* calculate_stop_loss.
Priced(table, current_price) ==
    [k \in DOMAIN table |->
        CalculateStopLoss(OptionDataInit(table[k]), current_price,
                          RMul(current_price, Rat(995, 1000)))]

\* total_risk of a number of lots of a contract.
RiskOf(option, lots) == RMul(option.risk_per_lot, RInt(lots * DEFAULT_LOT_SIZE))

InBand(option, lots) ==
    /\ RLe(RInt(TARGET_RISK_MIN), RiskOf(option, lots))
    /\ RLe(RiskOf(option, lots), RInt(TARGET_RISK_MAX))

Midpoint == Rat(TARGET_RISK_MIN + TARGET_RISK_MAX, 2)

FromMidpoint(option, lots) == RAbs(RSub(RiskOf(option, lots), Midpoint))

\* c comes no later than d in the order contracts and lot counts are met.
NoLater(c, d) == c[1] < d[1] \/ (c[1] = d[1] /\ c[2] <= d[2])

\* The selection is (contract c[1], c[2] lots) and no candidate of cands is
\* closer to the midpoint, or as close and met earlier.
Chosen(valid, cands, c, selection) ==
    /\ selection = [option |-> valid[c[1]], quantity |-> c[2] * DEFAULT_LOT_SIZE,
                    total_risk |-> RiskOf(valid[c[1]], c[2])]
    /\ \A d \in cands :
           /\ RLe(FromMidpoint(valid[c[1]], c[2]), FromMidpoint(valid[d[1]], d[2]))
           /\ FromMidpoint(valid[c[1]], c[2]) = FromMidpoint(valid[d[1]], d[2]) => NoLater(c, d)

SelectionRule(valid, in_band, selection) ==
    IF in_band # {}
    THEN \E c \in in_band : Chosen(valid, in_band, c, selection)
    ELSE \E c \in (DOMAIN valid) \X {1} : Chosen(valid, (DOMAIN valid) \X {1}, c, selection)

\* C23: select_optimal_strike over lots 1..50 per contract: if some
\* (contract, lots) has total_risk = risk_per_lot * lots * lot_size inside
\* [min, max], the result is the in-band candidate with the smallest
\* |total_risk - midpoint| (ties by encounter order); otherwise the result
\* is the contract that globally minimizes |risk_per_lot * lot_size -
\* midpoint| with quantity exactly one lot_size.
C23_SelectionRule ==
    (opt_call.op = "select" /\ ~opt_call.raised /\ opt_call.table # <<>>) =>
        \E valid \in {Priced(opt_call.table, opt_call.price)} :
            SelectionRule(valid,
                          {c \in (DOMAIN valid) \X (1..MaxLots) : InBand(valid[c[1]], c[2])},
                          opt_call.selection)

\* Two in-band candidates at the same distance from the midpoint, the
\* second contract's first.
C23_TieInBand ==
    /\ opt_call.op = "select" /\ ~opt_call.raised /\ Len(opt_call.table) = 2
    /\ \E valid \in {Priced(opt_call.table, opt_call.price)} :
           /\ InBand(valid[1], 1) /\ InBand(valid[2], 1)
           /\ FromMidpoint(valid[1], 1) = FromMidpoint(valid[2], 1)
           /\ valid[1] # valid[2]
           /\ opt_call.selection.option = valid[1]

\* A row with a malformed numeric field or without Greeks.
DefectiveRow(row) ==
    \/ OptionDataRaises(row)
    \/ RNone \in {row.delta, row.gamma, row.theta}

\* C24: in select_optimal_strike a contract row with a malformed numeric
\* field or missing Greeks is skipped and selection continues over the
\* remaining contracts: the call returns the same result as it would on the
\* table without that row, and no exception leaves the call.
C24_DefectiveRowSkipped ==
    (opt_call.op = "select" /\ \E k \in DOMAIN opt_call.table : DefectiveRow(opt_call.table[k])) =>
        /\ ~opt_call.raised
        /\ opt_call.selection =
               SelectOptimalStrike(SelectSeq(opt_call.table, LAMBDA row : ~DefectiveRow(row)),
                                   opt_call.price, TARGET_RISK_MIN, TARGET_RISK_MAX,
                                   DEFAULT_LOT_SIZE)

\* C27: calculate_stop_loss returns a result for every option with numeric
\* fields, including zero or negative Greeks, with total = delta * move +
\* 0.5 * gamma * move^2 + (|theta| / 144) * (10 / 60) where move =
\* |entry - stop|; when last_price > 0 it sets stop_loss =
\* max(last_price - total, 0.1) and target = last_price + 2 * (last_price -
\* stop_loss).
C27_StopLossFormula ==
    opt_call.op = "stop_loss" =>
        \E o \in {opt_call.option}, move \in {RAbs(RSub(opt_call.entry, opt_call.stop))} :
        \E total \in {RAdd(RMul(o.delta, move),
                            RAdd(RMul(RMul(Rat(1, 2), o.gamma), RMul(move, move)),
                                 RMul(RAbs(o.theta), Rat(10, 144 * 60))))} :
            /\ opt_call.after.risk_per_lot = total
            /\ IF o.last_price.n > 0
               THEN \E stop_loss \in {IF RLt(RSub(o.last_price, total), Rat(1, 10))
                                       THEN Rat(1, 10) ELSE RSub(o.last_price, total)} :
                       /\ opt_call.after.stop_loss = stop_loss
                       /\ opt_call.after.target =
                              RAdd(o.last_price, RMul(RInt(2), RSub(o.last_price, stop_loss)))
               ELSE opt_call.after.stop_loss = RNone /\ opt_call.after.target = RNone
            /\ [opt_call.after EXCEPT !.risk_per_lot = RNone, !.stop_loss = RNone,
                                      !.target = RNone] = o

\* A stop loss was computed for a negative theta and held at the floor 0.1.
C27_NegativeThetaAtFloor ==
    /\ opt_call.op = "stop_loss"
    /\ opt_call.option.theta.n < 0
    /\ opt_call.after.stop_loss = Rat(1, 10)
    /\ opt_call.stop.n * opt_call.entry.d > opt_call.entry.n * opt_call.stop.d

\* An iteration of the loop has just been taken, to its end or to an exception.
StepTaken == eng_pc \in {"loop", "done", "raised"} /\ eng_i >= 2

\* The point was null before the iteration and is set after it.
Formed(p) == eng_before[p] = None /\ eng[p] # None

\* The point was given a value in the iteration, for the first time or anew.
Assigned(p) == eng[p] # None /\ eng[p] # eng_before[p]

\* C32: in every state reachable on a fresh engine the set points satisfy
\* L1_idx < H1_idx < A_idx, B_idx > A_idx + 1, C_idx >= B_idx + 2, with
\* H1 > L1, A > L1, B > A and C > B; a point is formed only while it is
\* null and all its predecessors are set (A, B and C keep their value until
\* they are reset), and no two of H1, A, B, C are formed on the same candle.
C32_FormationOrder ==
    /\ eng.H1 # None => eng.L1 # None /\ eng.L1_idx < eng.H1_idx /\ eng.H1 > eng.L1
    /\ eng.A # None => eng.H1 # None /\ eng.H1_idx < eng.A_idx /\ eng.A > eng.L1
    /\ eng.B # None => eng.A # None /\ eng.B_idx > eng.A_idx + 1 /\ eng.B > eng.A
    /\ eng.C # None => eng.B # None /\ eng.C_idx >= eng.B_idx + 2 /\ eng.C > eng.B
    /\ StepTaken =>
           /\ \A p \in {"A", "B", "C"} :
                  eng_before[p] # None => eng[p] \in {eng_before[p], None}
           /\ Formed("H1") => eng_before.L1 # None
           /\ Formed("A") => eng_before.H1 # None /\ eng_before.L1 # None
           /\ Formed("B") => eng_before.A # None /\ eng_before.H1 # None
           /\ Formed("C") => eng_before.B # None /\ eng_before.A # None
           /\ Cardinality({p \in {"H1", "A", "B", "C"} : Assigned(p)}) <= 1

\* C has just been formed, two candles or more after B.
C32_CFormed == StepTaken /\ Formed("C") /\ eng.C_idx = SteppedIndex

\* C34: in every state reached at the end of a candle step of
\* generate_signals on a fresh engine, C is set iff D is set iff a
\* PendingSetup exists; D is never computed while B or C is unset, and C is
\* never left set without D.
C34_CDAndSetupTogether ==
    /\ Stepped =>
           /\ (eng.C # None) <=> (eng.D # None)
           /\ (eng.D # None) <=> (eng.pending_setup # NoSetup)
    /\ eng.D # None => eng.B # None /\ eng.C # None
    /\ eng.C # None => eng.D # None

\* The signal row at candle i (rows are numbered from 0).
SignalRow(e, i) == e.signals[i + 1]

Invalidates(e, i) ==
    e.pending_setup # NoSetup /\ (L1Updates(e, i) \/ H1Updates(e, i))

\* C36: within one candle step of generate_signals invalidation is applied
\* before breakout evaluation: if a PendingSetup exists and candle i
\* triggers an L1 update or an H1 update, the setup is cancelled and no
\* signal is recorded at i even when high[i] > D.
C36_InvalidationBeforeBreakout ==
    (Stepped /\ Invalidates(eng_before, SteppedIndex)) =>
        /\ eng.pending_setup = NoSetup
        /\ SignalRow(eng, SteppedIndex) = NoSignalRow
        /\ eng.signals = eng_before.signals
        /\ eng.structures = eng_before.structures

\* A candle whose high lies above D invalidated the pending setup.
C36_InvalidatedAboveD ==
    /\ Stepped
    /\ Invalidates(eng_before, SteppedIndex)
    /\ High(eng_before, SteppedIndex) > eng_before.D

\* C38: generate_signals is idempotent on one engine: calling it a second
\* time on the same engine over the same candle sequence leaves the
\* structure points, the PendingSetup and the signal table exactly as they
\* were after the first call.
C38_SecondCallChangesNothing ==
    (eng_pc = "done" /\ eng_calls = 2) =>
        \E first \in {GenerateSignals(NewEngine(eng.data), PlaceholderOptionsData)} :
            /\ StructureSnapshot(eng) = StructureSnapshot(first)
            /\ eng.signals = first.signals

\* ------------------------------------------------- application, once more
\* C37: for every PendingSetup derived from candles with high >= low,
\* entry_price > stop_loss and target > entry_price (the risk entry_price -
\* stop_loss is strictly positive), in the batch path and in the setup
\* rebuilt by check_live_tick.
C37_SetupRiskPositive ==
    /\ spot_strategy.pending_setup # NoSetup =>
           /\ spot_strategy.pending_setup.entry_price > spot_strategy.pending_setup.stop_loss
           /\ spot_strategy.pending_setup.target > spot_strategy.pending_setup.entry_price
    /\ signal_data # NoSignal =>
           /\ signal_data.entry_price > signal_data.stop_loss
           /\ signal_data.target > signal_data.entry_price

\* check_live_tick has just built a setup on the spot (such a setup carries
\* no strategy_type).
C37_SetupRebuiltOnTick ==
    /\ live.price # None
    /\ live.before.pending_setup = NoSetup
    /\ spot_strategy.pending_setup # NoSetup
    /\ spot_strategy.pending_setup.strategy_type = "None"

\* The three audit fields of an engine.
Audit(e) == <<e.order_counter, e.order_history, e.last_order_id>>

\* place_order reaches the broker: there is a signal whose option has the
\* stop and target the bracket parameters are computed from.
ReachesBroker(signal) == signal # NoSignal /\ signal.option_data.target # RNone

\* C31: place_order increments order_counter by exactly one and appends
\* exactly one OrderRecord iff the broker returned an order id; when
\* placement fails, order_counter, order_history and last_order_id are
\* unchanged; order_history only grows, so len(order_history) =
\* order_counter in every reachable state of one engine.
C31_OrderAuditTrail ==
    /\ Len(spot_strategy.order_history) = spot_strategy.order_counter
    /\ tick_pc = "place_order" =>
           \E placed \in {StrategyPlaceOrder(spot_strategy, signal_data, OrderId)},
              failed \in {StrategyPlaceOrder(spot_strategy, signal_data, None)} :
               /\ Audit(failed) = Audit(spot_strategy)
               /\ IF ReachesBroker(signal_data)
                  THEN /\ placed.order_counter = spot_strategy.order_counter + 1
                       /\ Len(placed.order_history) = Len(spot_strategy.order_history) + 1
                       /\ SubSeq(placed.order_history, 1, Len(spot_strategy.order_history))
                              = spot_strategy.order_history
                       /\ placed.order_history[Len(placed.order_history)].order_id = OrderId
                       /\ placed.last_order_id = OrderId
                  ELSE Audit(placed) = Audit(spot_strategy)

\* An order has been placed and recorded.
C31_OrderRecorded ==
    /\ spot_strategy.order_counter = 1
    /\ Len(spot_strategy.order_history) = 1
    /\ spot_strategy.last_order_id = OrderId

\* The call that has just returned was update_from_tick with a tick whose
\* bucket is later than that of the candle then in progress.
LaterBucketTick ==
    /\ last_op.op = "tick"
    /\ last_op.before.current_candle # NoCandle
    /\ CandleStart(last_op.time, TimeframeMinutes) > last_op.before.current_candle.time

\* C33: a tick whose bucket start is later than the in-progress bucket
\* seals the in-progress candle unchanged into the completed sequence and
\* opens a new candle with open = high = low = close = price and volume 0;
\* a tick of the same bucket sets high = max(high, price),
\* low = min(low, price), close = price and leaves open, the open time and
\* every completed candle unchanged.
C33_AggregatorStep ==
    /\ LaterBucketTick =>
           /\ agg.completed_candles =
                  Append(last_op.before.completed_candles,
                         last_op.before.current_candle)
           /\ agg.current_candle.time = CandleStart(last_op.time, TimeframeMinutes)
           /\ agg.current_candle.open = last_op.price
           /\ agg.current_candle.high = last_op.price
           /\ agg.current_candle.low = last_op.price
           /\ agg.current_candle.close = last_op.price
           /\ agg.current_candle.volume = 0
    /\ SameBucketTick =>
           /\ agg.current_candle.high =
                  Max2(last_op.before.current_candle.high, last_op.price)
           /\ agg.current_candle.low =
                  Min2(last_op.before.current_candle.low, last_op.price)
           /\ agg.current_candle.close = last_op.price
           /\ agg.current_candle.open = last_op.before.current_candle.open
           /\ agg.current_candle.time = last_op.before.current_candle.time
           /\ agg.completed_candles = last_op.before.completed_candles

\* A tick of a later bucket has sealed a candle that a tick of its own
\* bucket had widened.
C33_SealedWidenedCandle ==
    /\ LaterBucketTick
    /\ last_op.before.current_candle.high > last_op.before.current_candle.low
    /\ Len(agg.completed_candles) > 0

\* C39: in the 5-minute aggregator of the application, seeded with the
\* 1-minute history and fed the live ticks, every candle's open time lies on
\* a 5-minute boundary.
C39_OpenTimesOnBoundary ==
    \A k \in DOMAIN AllCandles(spot_5min) :
        AllCandles(spot_5min)[k].time % TimeframeMinutes = 0

\* C40: for every option with last_price > 0 and a non-negative total
\* impact, calculate_stop_loss yields 0 < stop_loss <= last_price and
\* target >= last_price: the stop is never above the option's current price
\* and the target never below it.
C40_StopBelowPriceBelowTarget ==
    (/\ opt_call.op = "stop_loss"
     /\ RLt(RInt(0), opt_call.option.last_price)
     /\ RLe(RInt(0), opt_call.after.risk_per_lot)) =>
        /\ RLt(RInt(0), opt_call.after.stop_loss)
        /\ RLe(opt_call.after.stop_loss, opt_call.option.last_price)
        /\ RLe(opt_call.option.last_price, opt_call.after.target)

=============================================================================
